---- MODULE Spec2Model ----
(***************************************************************************)
(* A model of the orchestration core of the mergemaster coding agent:      *)
(*   - the approval gateway (tools/Execute_commands, src/unnamed/part_001) *)
(*     together with the terminal UI handlers that drive it (tui.tsx),     *)
(*   - the history pruner pruneMessages (agent_graph.ts),                  *)
(*   - the open-file cache maintained by executeTools (agent_graph.ts).    *)
(*   - the conversation graph run by runAgentGraph (agent_graph.ts),       *)
(*   - the checkpoint store (index.ts) and undoLastChange,                 *)
(*   - the output buffers of the server sessions (tui.tsx).                *)
(* Each part has its own specification over the shared variables; the      *)
(* variables of the other parts are pinned to their initial value.         *)
(***************************************************************************)
EXTENDS Integers, Sequences, FiniteSets, TLC

VARIABLES
  \* ---- approval gateway and terminal UI ----
  verbose,                  \* the --verbose flag handed to runAgentGraph
  pendingCommands,          \* part_001: Map toolUseId -> PendingCommandEntry
  pendingServerCommands,    \* part_001: Map toolUseId -> PendingServerCommandEntry
  slots,                    \* the promises made by waitFor...: state, value, settle calls
  loop,                     \* the conversation loop inside executeTools
  toolResults,              \* ToolResult blocks pushed by executeTools
  pendingCommand,           \* tui: pendingCommandRef.current
  commandSessionRef,        \* tui: commandSessionRef.current (a session, or 0)
  serverSessionControllers, \* tui: serverSessionControllersRef.current
  sessions,                 \* the PTY sessions made by executeCommandWithPTY
  shuttingDown,             \* tui: shuttingDownRef.current
  calls,                    \* history: every dispatched command tool call
  gwLog,                    \* history: the last call of a resolve/reject/wait function
  \* ---- pruneMessages ----
  messages,                 \* the history handed to pruneMessages
  maxMessages,              \* its ceiling
  maxTokens,                \* its token budget
  pruneOut,                 \* what pruneMessages returned
  prunePc,                  \* "input" before the call, "done" after
  \* ---- open-file cache ----
  openFiles,                \* state.openFiles, a Map in insertion order
  batchFiles,               \* executeTools' working copy of the cache
  now,                      \* Date.now() taken by the running executeTools call
  clock,                    \* the wall clock, in executeTools calls started
  cachePc,                  \* "idle" between executeTools calls, "exec" inside one
  lastEvict,                \* history: the last tool execution and what it evicted
  seenPaths,                \* number of distinct file paths used so far
  \* ---- conversation graph (createAgentGraph / runAgentGraph) ----
  provider,                 \* callLLM: 'openai' for gpt- models, else 'anthropic'
  graphPc,                  \* the node the graph is at, or "gate" inside shouldContinue
  stepCount,                \* supersteps run by this invoke (counted against recursionLimit)
  iterationCount,           \* channel iterationCount
  toolUses,                 \* channel toolUses: how many tool uses the model asked for
  batchResults,             \* channel toolResults
  history,                  \* channel messages: its length
  queryContinues,           \* the user query contains 'continue' / 'yes' / 'keep going'
  spinner,                  \* the progress indicator set by output.startSpinner
  saved,                    \* the channel values of the last checkpoint written
  thrown,                   \* what graph.invoke rejected with, "none" if nothing
  batchOutcomes,            \* history: how each tool invocation of the batch ended
  gate,                     \* history: what followed the last 'continue' answer
  lastText,                 \* text of the last text block of the last model response
  toolEvents,               \* history: what executeTools did, in order, until its
                            \* results are formatted
  lastMessages,             \* the history from its last assistant message (or the query) on
  \* ---- checkpoint store and undo (SqliteCheckpointSaver, undoLastChange) ----
  checkpoints,              \* rows of the table checkpoints, in rowid order
  wall,                     \* Date.now(), in milliseconds
  threadId,                 \* the session id the graph persists under
  state,                    \* the channel values held by the running session
  disk,                     \* the files on disk: path -> content
  lastGet,                  \* history: the last getTuple call and what it returned
  lastUndo,                 \* history: the last undoLastChange call and its result
  ops,                      \* number of store operations so far
  \* ---- output buffers of the server sessions (tui.tsx) ----
  serverOutput,             \* session id -> ServerSession.output
  received,                 \* history: session id -> the chunks appended so far
  \* ---- the history of one turn (callLLM, callAnthropic, formatResults) ----
  historicalSummaries,      \* channel historicalSummaries
  turn,                     \* the node the turn is at, and history of its last call
  \* ---- context tracking of executeTools ----
  tracked,                  \* channels openFiles, recentChanges, recentReads, recentCommands
  working,                  \* executeTools' working copies of them, while it runs
  trackLog,                 \* history: what was appended, evicted and undone
  \* ---- the continue gate (part_001) ----
  pendingContinue,          \* pendingContinueResolve / pendingContinueReject
  waiters,                  \* the promises made by waitForContinue
  continueUi,               \* tui: pendingContinue, isProcessing and the graph runs
  \* ---- the approval marker (part_001, tui.tsx) ----
  marked                    \* the last command tool call: input, marker, what was parsed

gwVars == <<verbose, pendingCommands, pendingServerCommands, slots, loop, toolResults,
            pendingCommand, commandSessionRef, serverSessionControllers, sessions,
            shuttingDown, calls, gwLog>>
prVars == <<messages, maxMessages, maxTokens, pruneOut, prunePc>>
caVars == <<openFiles, batchFiles, now, clock, cachePc, lastEvict, seenPaths>>
grVars == <<provider, graphPc, stepCount, iterationCount, toolUses, batchResults, history,
            queryContinues, spinner, saved, thrown, batchOutcomes, gate,
            lastText, toolEvents, lastMessages>>
stVars == <<checkpoints, wall, threadId, state, disk, lastGet, lastUndo, ops>>
obVars == <<serverOutput, received>>
tuVars == <<historicalSummaries, turn>>
tkVars == <<tracked, working, trackLog>>
cgVars == <<pendingContinue, waiters, continueUi>>
mkVars == <<marked>>
xtVars == <<tuVars, tkVars, cgVars, mkVars>>
vars == <<gwVars, prVars, caVars, grVars, stVars, obVars, xtVars>>

(***************************************************************************)
(* Generic helpers.                                                        *)
(***************************************************************************)
Range(s) == {s[i] : i \in 1..Len(s)}

RECURSIVE Reverse(_)
Reverse(s) == IF s = <<>> THEN <<>> ELSE Reverse(Tail(s)) \o <<Head(s)>>

\* Array.prototype.slice(-n) for n >= 1: the last n elements.
SliceLast(s, n) == IF Len(s) <= n THEN s ELSE SubSeq(s, Len(s) - n + 1, Len(s))

\* Array.prototype.slice(0, n): the first n elements.
SliceFirst(s, n) == IF Len(s) <= n THEN s ELSE SubSeq(s, 1, n)

Max(a, b) == IF a >= b THEN a ELSE b

(***************************************************************************)
(* PART 1.  The approval gateway.                                          *)
(***************************************************************************)

\* Bound of the gateway model: the number of command tool calls dispatched.
MaxDispatch == 2

\* The tool-use ids the provider hands out (two, so that calls can share one or differ).
Ids == {1, 2}
EmptyId == 0            \* the empty string '' as a tool-use id (falsy)
NoId == -1              \* undefined
GenId(n) == 100 + n     \* tui: `server-${Date.now()}`, distinct per request

Falsy(id) == id \in {EmptyId, NoId}

NoEntry == [present |-> FALSE, approval |-> 0, slot |-> 0]
NoValue == [ok |-> TRUE, stdout |-> "", stderr |-> "", exitCode |-> 0, error |-> ""]
Result(out, err, code) ==
  [ok |-> TRUE, stdout |-> out, stderr |-> err, exitCode |-> code, error |-> ""]
Failure(msg) ==
  [ok |-> FALSE, stdout |-> "", stderr |-> "", exitCode |-> 0, error |-> msg]
NewSlot == [state |-> "pending", value |-> NoValue, nsettle |-> 0]

\* The promise's resolve function: the first settlement wins, later ones are ignored.
SettleResolve(sl, p, v) ==
  [sl EXCEPT ![p] = [state |-> IF @.state = "pending" THEN "resolved" ELSE @.state,
                     value |-> IF @.state = "pending" THEN v ELSE @.value,
                     nsettle |-> @.nsettle + 1]]

\* The promise's reject function.
SettleReject(sl, p, v) ==
  [sl EXCEPT ![p] = [state |-> IF @.state = "pending" THEN "rejected" ELSE @.state,
                     value |-> IF @.state = "pending" THEN v ELSE @.value,
                     nsettle |-> @.nsettle + 1]]

\* Mutant: the has(toolUseId) check is missing, a second registration overwrites.
WaitForMutDup(map, sl, id, approval) ==
  IF id = EmptyId
  THEN [threw |-> TRUE, map |-> map, slots |-> sl, slot |-> 0]
  ELSE [threw |-> FALSE,
        map |-> [map EXCEPT ![id] = [present |-> TRUE, approval |-> approval,
                                     slot |-> Len(sl) + 1]],
        slots |-> Append(sl, NewSlot), slot |-> Len(sl) + 1]

\* waitForCommandCompletion / waitForServerCommand on one of the two maps:
\* threw is TRUE when the function throws; else the entry and its promise are made.
WaitFor(map, sl, id, approval) ==
  IF id = EmptyId \/ map[id].present
  THEN [threw |-> TRUE, map |-> map, slots |-> sl, slot |-> 0]
  ELSE [threw |-> FALSE,
        map |-> [map EXCEPT ![id] = [present |-> TRUE, approval |-> approval,
                                     slot |-> Len(sl) + 1]],
        slots |-> Append(sl, NewSlot), slot |-> Len(sl) + 1]

\* Map.get(toolUseId): undefined for any key that is not in the map.
Lookup(map, id) == IF id \in DOMAIN map THEN map[id] ELSE NoEntry

\* resolvePendingCommand / resolvePendingServerCommand.
ResolvePending(map, sl, id, result) ==
  IF ~Lookup(map, id).present
  THEN [ret |-> FALSE, map |-> map, slots |-> sl]
  ELSE [ret |-> TRUE, map |-> [map EXCEPT ![id] = NoEntry],
        slots |-> SettleResolve(sl, map[id].slot, result)]

\* Mutant: the entry is not deleted, so a later delivery finds it again.
RejectPendingMutNoDelete(map, sl, id, error) ==
  IF ~Lookup(map, id).present
  THEN [ret |-> FALSE, map |-> map, slots |-> sl]
  ELSE [ret |-> TRUE, map |-> map,
        slots |-> SettleReject(sl, map[id].slot, Failure(error))]

\* rejectPendingCommand / rejectPendingServerCommand.
RejectPending(map, sl, id, error) ==
  IF ~Lookup(map, id).present
  THEN [ret |-> FALSE, map |-> map, slots |-> sl]
  ELSE [ret |-> TRUE, map |-> [map EXCEPT ![id] = NoEntry],
        slots |-> SettleReject(sl, map[id].slot, Failure(error))]

(***************************************************************************)
(* Terminal UI state and PTY sessions.                                     *)
(***************************************************************************)
NoPending == [present |-> FALSE, toolUseId |-> NoId, isServer |-> FALSE,
              selected |-> 0, call |-> 0]

NoLog == [fn |-> "none", id |-> NoId, ret |-> FALSE, had |-> FALSE, changed |-> FALSE]

\* What a call of a resolve/reject function did, for the history variable gwLog.
LogOf(fn, map, sl, id, r) ==
  [fn |-> fn, id |-> id, ret |-> r.ret, had |-> Lookup(map, id).present,
   changed |-> (r.map # map \/ r.slots # sl)]

\* A session as made by executeCommandWithPTY: the process is "running" until it
\* is killed ("killed": the exit event is still to come) or has "exited";
\* the timer is "armed", "fired" or "cleared" (the terminal UI always passes a
\* positive timeout: normalizedTimeout is the marker's timeout or 900).
\* report holds what the exit event handed to onExit, once it has; killThrew
\* says that ptyProcess.kill() threw in the timer's callback.
NewSession(kind, key, call) ==
  [kind |-> kind, toolUseId |-> key, call |-> call, state |-> "running",
   timer |-> "armed", timedOut |-> FALSE, exits |-> 0, report |-> <<>>,
   killThrew |-> FALSE]

\* Mutant: dispose kills the process and leaves the timer.
DisposeMutKeepTimer(ss, sid) ==
  IF sid = 0 THEN ss
  ELSE [ss EXCEPT ![sid].state = IF @ = "running" THEN "killed" ELSE @]

\* CommandPTYSession.dispose(): clearTimeout, then kill (errors ignored).
Dispose(ss, sid) ==
  IF sid = 0 THEN ss
  ELSE [ss EXCEPT ![sid].timer = IF @ = "armed" THEN "cleared" ELSE @,
                  ![sid].state = IF @ = "running" THEN "killed" ELSE @]

RECURSIVE DisposeAll(_, _)
DisposeAll(ss, sids) ==
  IF sids = {} THEN ss
  ELSE LET sid == CHOOSE x \in sids : TRUE
       IN DisposeAll(Dispose(ss, sid), sids \ {sid})

\* Map.delete on serverSessionControllersRef.current.
MapDelete(f, k) == [x \in (DOMAIN f) \ {k} |-> f[x]]
\* Map.set.
MapSet(f, k, v) == [x \in (DOMAIN f) \cup {k} |-> IF x = k THEN v ELSE f[x]]

Live(s) == s.state \in {"running", "killed"}

(***************************************************************************)
(* Actions of the gateway specification.                                   *)
(***************************************************************************)
GwInit ==
  /\ verbose \in BOOLEAN
  /\ pendingCommands = [i \in Ids |-> NoEntry]
  /\ pendingServerCommands = [i \in Ids |-> NoEntry]
  /\ slots = <<>>
  /\ loop = [pc |-> "idle", slot |-> 0, id |-> NoId]
  /\ toolResults = <<>>
  /\ pendingCommand = NoPending
  /\ commandSessionRef = 0
  /\ serverSessionControllers = <<>>
  /\ sessions = <<>>
  /\ shuttingDown = FALSE
  /\ calls = <<>>
  /\ gwLog = NoLog

\* The tool-use id the terminal UI attaches to the approval prompt. The prompt's
\* operation is the one output.tool made (it carries toolUseId); with --verbose
\* executeTools never calls output.tool, so the write handler makes the operation
\* itself: without an id for a command, with `server-<now>` for a server command.
PromptId(id, isServer, n) ==
  IF verbose THEN (IF isServer THEN GenId(n) ELSE NoId) ELSE id

\* Mutant: the tool runs the command itself instead of returning the marker.
DispatchMutSpawn(id, isServer) ==
  /\ loop.pc = "idle"
  /\ Len(calls) < MaxDispatch
  /\ calls' = Append(calls, [id |-> id, isServer |-> isServer, slot |-> 0,
                              decision |-> "none"])
  /\ sessions' = Append(sessions, NewSession(IF isServer THEN "server" ELSE "command",
                                               id, Len(calls) + 1))
  /\ UNCHANGED <<verbose, pendingCommands, pendingServerCommands, slots, loop,
                  toolResults, pendingCommand, commandSessionRef,
                  serverSessionControllers, shuttingDown, gwLog>>
  /\ UNCHANGED <<prVars, caVars, grVars, stVars, obVars, xtVars>>

\* executeTools on an execute_command / execute_server_command tool use:
\* executeTool returns the marker, output.write hands it to the terminal UI, which
\* sets the approval prompt, and waitFor... registers the pending approval.
Dispatch(id, isServer) ==
  /\ loop.pc = "idle"
  /\ Len(calls) < MaxDispatch
  /\ LET n == Len(calls) + 1
         map == IF isServer THEN pendingServerCommands ELSE pendingCommands
         w == WaitFor(map, slots, id, n)
     IN /\ pendingCommand' = [present |-> TRUE, toolUseId |-> PromptId(id, isServer, n),
                               isServer |-> isServer, selected |-> 0, call |-> n]
        /\ calls' = Append(calls, [id |-> id, isServer |-> isServer, slot |-> w.slot,
                                    decision |-> "none"])
        /\ slots' = w.slots
        /\ IF isServer
           THEN pendingServerCommands' = w.map /\ UNCHANGED pendingCommands
           ELSE pendingCommands' = w.map /\ UNCHANGED pendingServerCommands
        /\ gwLog' = [fn |-> "wait", id |-> id, ret |-> ~w.threw,
                      had |-> Lookup(map, id).present,
                      changed |-> (w.map # map \/ w.slots # slots)]
        /\ IF w.threw
           THEN /\ toolResults' = Append(toolResults,
                       [tool_use_id |-> id, is_error |-> TRUE, value |-> Failure("pending")])
                /\ UNCHANGED loop
           ELSE /\ loop' = [pc |-> "waiting", slot |-> w.slot, id |-> id]
                /\ UNCHANGED toolResults
  /\ UNCHANGED <<verbose, commandSessionRef, serverSessionControllers, sessions,
                  shuttingDown>>
  /\ UNCHANGED <<prVars, caVars, grVars, stVars, obVars, xtVars>>

\* executeTools resumes after `await waitFor...`: the result becomes a ToolResult,
\* a rejection is caught and becomes an error ToolResult.
AgentResume ==
  /\ loop.pc = "waiting"
  /\ slots[loop.slot].state # "pending"
  /\ toolResults' = Append(toolResults,
        [tool_use_id |-> loop.id, is_error |-> (slots[loop.slot].state = "rejected"),
         value |-> slots[loop.slot].value])
  /\ loop' = [pc |-> "idle", slot |-> 0, id |-> NoId]
  /\ UNCHANGED <<verbose, pendingCommands, pendingServerCommands, slots, pendingCommand,
                  commandSessionRef, serverSessionControllers, sessions, shuttingDown,
                  calls, gwLog>>
  /\ UNCHANGED <<prVars, caVars, grVars, stVars, obVars, xtVars>>

\* useInput: an arrow key moves the selection of the approval prompt.
ArrowKey(sel) ==
  /\ pendingCommand.present
  /\ pendingCommand' = [pendingCommand EXCEPT !.selected = sel]
  /\ UNCHANGED <<verbose, pendingCommands, pendingServerCommands, slots, loop,
                  toolResults, commandSessionRef, serverSessionControllers, sessions,
                  shuttingDown, calls, gwLog>>
  /\ UNCHANGED <<prVars, caVars, grVars, stVars, obVars, xtVars>>

Decide(n, d) == [calls EXCEPT ![n].decision = d]

\* The effect of one call of a resolve/reject function on the command map.
ApplyCmd(fn, id, r) ==
  /\ pendingCommands' = r.map
  /\ slots' = r.slots
  /\ gwLog' = LogOf(fn, pendingCommands, slots, id, r)
  /\ UNCHANGED pendingServerCommands

\* The same on the server-command map.
ApplySrv(fn, id, r) ==
  /\ pendingServerCommands' = r.map
  /\ slots' = r.slots
  /\ gwLog' = LogOf(fn, pendingServerCommands, slots, id, r)
  /\ UNCHANGED pendingCommands

NoGw == UNCHANGED <<pendingCommands, pendingServerCommands, slots, gwLog>>

\* useInput, Return on the approval prompt: selection 0 approves and starts the
\* session (startCommandSession / startServerSession), selection 1 rejects.
ReturnKey(spawnOk) ==
  LET ctx == pendingCommand
      key == ctx.toolUseId
      sid == Len(sessions) + 1
  IN
  /\ ctx.present
  /\ pendingCommand' = NoPending
  /\ IF ctx.selected = 0
     THEN /\ calls' = Decide(ctx.call, "approve")
          /\ IF ctx.isServer
             THEN IF Falsy(key)
                  THEN /\ NoGw
                       /\ UNCHANGED <<sessions, serverSessionControllers>>
                  ELSE IF spawnOk
                  THEN /\ sessions' = Append(sessions, NewSession("server", key, ctx.call))
                       /\ serverSessionControllers' = MapSet(serverSessionControllers, key, sid)
                       /\ ApplySrv("resolve", key,
                            ResolvePending(pendingServerCommands, slots, key,
                                           Result("started", "", 0)))
                  ELSE /\ serverSessionControllers' = MapDelete(serverSessionControllers, key)
                       /\ ApplySrv("reject", key,
                            RejectPending(pendingServerCommands, slots, key, "spawn failed"))
                       /\ UNCHANGED sessions
             ELSE /\ UNCHANGED serverSessionControllers
                  /\ IF spawnOk
                     THEN /\ sessions' = Append(sessions, NewSession("command", key, ctx.call))
                          /\ NoGw
                     ELSE /\ UNCHANGED sessions
                          /\ IF Falsy(key) THEN NoGw
                             ELSE ApplyCmd("reject", key,
                                    RejectPending(pendingCommands, slots, key, "spawn failed"))
          /\ commandSessionRef' = IF ctx.isServer THEN commandSessionRef
                                   ELSE IF spawnOk THEN sid ELSE 0
     ELSE /\ calls' = Decide(ctx.call, "reject")
          /\ UNCHANGED <<sessions, commandSessionRef>>
          /\ IF Falsy(key)
             THEN NoGw /\ UNCHANGED serverSessionControllers
             ELSE IF ctx.isServer
             THEN /\ ApplySrv("resolve", key,
                       ResolvePending(pendingServerCommands, slots, key,
                                      Result("rejected", "", -1)))
                  /\ serverSessionControllers' = MapDelete(serverSessionControllers, key)
             ELSE /\ ApplyCmd("resolve", key,
                       ResolvePending(pendingCommands, slots, key,
                                      Result("", "Command not approved by user", -1)))
                  /\ UNCHANGED serverSessionControllers
  /\ UNCHANGED <<verbose, loop, toolResults, shuttingDown>>
  /\ UNCHANGED <<prVars, caVars, grVars, stVars, obVars, xtVars>>

\* useInput, Escape on the approval prompt: the approval is dismissed.
EscapeKey ==
  LET ctx == pendingCommand
      key == ctx.toolUseId
  IN
  /\ ctx.present
  /\ pendingCommand' = NoPending
  /\ calls' = Decide(ctx.call, "dismiss")
  /\ IF Falsy(key)
     THEN NoGw /\ UNCHANGED serverSessionControllers
     ELSE IF ctx.isServer
     THEN /\ ApplySrv("reject", key,
               RejectPending(pendingServerCommands, slots, key,
                             "Server command approval dismissed"))
          /\ serverSessionControllers' = MapDelete(serverSessionControllers, key)
     ELSE /\ ApplyCmd("resolve", key,
               ResolvePending(pendingCommands, slots, key,
                              Result("", "Command approval dismissed", -1)))
          /\ UNCHANGED serverSessionControllers
  /\ UNCHANGED <<verbose, loop, toolResults, commandSessionRef, sessions, shuttingDown>>
  /\ UNCHANGED <<prVars, caVars, grVars, stVars, obVars, xtVars>>

\* A command session whose process has not exited and was not disposed: it
\* runs, or its timer has killed it and the exit event is still to come.
Attachable(s) ==
  /\ s.kind = "command"
  /\ \/ s.state = "running"
     \/ s.state = "killed" /\ s.timer = "fired" /\ ~s.killThrew

\* Mutant: onError of a command session leaves the session attached.
OnErrorMutKeepRef(ss, sid) ==
  LET key == ss[sid].toolUseId IN
  IF ss[sid].kind = "command"
  THEN /\ sessions' = Dispose(ss, commandSessionRef)
       /\ UNCHANGED <<commandSessionRef, serverSessionControllers>>
       /\ IF Falsy(key) THEN NoGw
          ELSE ApplyCmd("reject", key,
                 RejectPending(pendingCommands, slots, key, "process error"))
  ELSE /\ sessions' = ss
       /\ serverSessionControllers' = MapDelete(serverSessionControllers, key)
       /\ UNCHANGED commandSessionRef
       /\ NoGw

\* The onError callback startCommandSession / startServerSession gave the session.
OnError(ss, sid) ==
  LET key == ss[sid].toolUseId IN
  IF ss[sid].kind = "command"
  THEN /\ sessions' = Dispose(ss, commandSessionRef)
       /\ commandSessionRef' = 0
       /\ UNCHANGED serverSessionControllers
       /\ IF Falsy(key) THEN NoGw
          ELSE ApplyCmd("reject", key,
                 RejectPending(pendingCommands, slots, key, "process error"))
  ELSE /\ sessions' = ss
       /\ serverSessionControllers' = MapDelete(serverSessionControllers, key)
       /\ UNCHANGED commandSessionRef
       /\ NoGw

\* startCommandSession, onExit: the result handed to resolvePendingCommand.
ExitResult(exitCode, timedOut) ==
  Result("output", IF timedOut THEN "Command timed out" ELSE "", exitCode)

\* ptyProcess.onExit: the timer is cleared and the session's onExit callback runs.
ProcExit(sid, exitCode) ==
  LET s == sessions[sid]
      key == s.toolUseId
  IN
  /\ sid <= Len(sessions)
  /\ Live(s)
  /\ sessions' = [sessions EXCEPT ![sid].state = "exited",
                                   ![sid].timer = IF @ = "armed" THEN "cleared" ELSE @,
                                   ![sid].exits = @ + 1,
                                   ![sid].report = <<[exitCode |-> exitCode,
                                                      timedOut |-> s.timedOut]>>]
  /\ IF s.kind = "command"
     THEN /\ commandSessionRef' = 0
          /\ UNCHANGED serverSessionControllers
          /\ IF Falsy(key) THEN NoGw
             ELSE ApplyCmd("resolve", key,
                    ResolvePending(pendingCommands, slots, key,
                                   ExitResult(exitCode, s.timedOut)))
     ELSE /\ serverSessionControllers' = MapDelete(serverSessionControllers, key)
          /\ UNCHANGED commandSessionRef
          /\ NoGw
  /\ UNCHANGED <<verbose, loop, toolResults, pendingCommand, shuttingDown, calls>>
  /\ UNCHANGED <<prVars, caVars, grVars, stVars, obVars, xtVars>>

\* The setTimeout callback of executeCommandWithPTY: timedOut is set and the
\* process is killed; a kill that throws goes to onError.
Timeout(sid, killOk) ==
  LET s == sessions[sid]
      fired == [sessions EXCEPT ![sid].timer = "fired", ![sid].timedOut = TRUE,
                                ![sid].state = IF killOk /\ @ = "running" THEN "killed"
                                               ELSE @,
                                ![sid].killThrew = ~killOk]
  IN
  /\ sid <= Len(sessions)
  /\ s.timer = "armed"
  /\ IF killOk
     THEN /\ sessions' = fired
          /\ NoGw
          /\ UNCHANGED <<commandSessionRef, serverSessionControllers>>
     ELSE OnError(fired, sid)
  /\ UNCHANGED <<verbose, loop, toolResults, pendingCommand, shuttingDown, calls>>
  /\ UNCHANGED <<prVars, caVars, grVars, stVars, obVars, xtVars>>

\* useInput forwards a key to the attached command session; a write that throws
\* goes to onError.
KeyToPty(writeOk) ==
  /\ ~pendingCommand.present
  /\ commandSessionRef # 0
  /\ IF writeOk
     THEN /\ gwLog' = [fn |-> "write", id |-> commandSessionRef, ret |-> TRUE,
                        had |-> Attachable(sessions[commandSessionRef]),
                        changed |-> FALSE]
          /\ UNCHANGED <<pendingCommands, pendingServerCommands, slots>>
          /\ UNCHANGED <<sessions, commandSessionRef, serverSessionControllers>>
     ELSE OnError(sessions, commandSessionRef)
  /\ UNCHANGED <<verbose, loop, toolResults, pendingCommand, shuttingDown, calls>>
  /\ UNCHANGED <<prVars, caVars, grVars, stVars, obVars, xtVars>>

\* gracefulShutdown (SIGINT, or Escape / Ctrl+C outside a prompt).
Shutdown ==
  LET ctx == pendingCommand
      key == ctx.toolUseId
      removed == IF ctx.present /\ ~Falsy(key) /\ ctx.isServer
                 THEN MapDelete(serverSessionControllers, key)
                 ELSE serverSessionControllers
      toDispose == {removed[k] : k \in DOMAIN removed}
                     \cup (IF commandSessionRef = 0 THEN {} ELSE {commandSessionRef})
  IN
  /\ ~shuttingDown
  /\ shuttingDown' = TRUE
  /\ pendingCommand' = NoPending
  /\ calls' = IF ctx.present THEN Decide(ctx.call, "shutdown") ELSE calls
  /\ IF ~ctx.present \/ Falsy(key)
     THEN NoGw
     ELSE IF ctx.isServer
     THEN ApplySrv("reject", key,
            RejectPending(pendingServerCommands, slots, key, "Session terminated by user"))
     ELSE ApplyCmd("resolve", key,
            ResolvePending(pendingCommands, slots, key,
                           Result("", "Command cancelled (session terminated)", -1)))
  /\ sessions' = DisposeAll(sessions, toDispose)
  /\ commandSessionRef' = 0
  /\ serverSessionControllers' = <<>>
  /\ UNCHANGED <<verbose, loop, toolResults>>
  /\ UNCHANGED <<prVars, caVars, grVars, stVars, obVars, xtVars>>

\* useInput, Ctrl+X: stopServerSession() stops the most recent running server.
StopServer ==
  /\ ~pendingCommand.present
  /\ DOMAIN serverSessionControllers # {}
  /\ LET keys == DOMAIN serverSessionControllers
         target == CHOOSE k \in keys :
                     \A j \in keys : sessions[serverSessionControllers[j]].call
                                        <= sessions[serverSessionControllers[k]].call
     IN /\ sessions' = Dispose(sessions, serverSessionControllers[target])
        /\ serverSessionControllers' = MapDelete(serverSessionControllers, target)
  /\ NoGw
  /\ UNCHANGED <<verbose, loop, toolResults, pendingCommand, commandSessionRef,
                  shuttingDown, calls>>
  /\ UNCHANGED <<prVars, caVars, grVars, stVars, obVars, xtVars>>

\* handleSubmit: the user sends a new query while the previous turn is still
\* suspended on an approval that nothing will release (isProcessing was cleared
\* when the approval was requested, no prompt and no attached session are left).
NewTurn ==
  /\ loop.pc = "waiting"
  /\ slots[loop.slot].state = "pending"
  /\ ~pendingCommand.present
  /\ commandSessionRef = 0
  /\ ~shuttingDown
  /\ loop' = [pc |-> "idle", slot |-> 0, id |-> NoId]
  /\ UNCHANGED <<verbose, pendingCommands, pendingServerCommands, slots, toolResults,
                  pendingCommand, commandSessionRef, serverSessionControllers, sessions,
                  shuttingDown, calls, gwLog>>
  /\ UNCHANGED <<prVars, caVars, grVars, stVars, obVars, xtVars>>

\* The other parts, pinned.
PrIdle ==
  /\ messages = <<>>
  /\ maxMessages = 0
  /\ maxTokens = 0
  /\ pruneOut = <<>>
  /\ prunePc = "off"

CaIdle ==
  /\ openFiles = <<>>
  /\ batchFiles = <<>>
  /\ now = 0
  /\ clock = 0
  /\ cachePc = "off"
  /\ lastEvict = <<>>
  /\ seenPaths = 0

GwQuiet ==
  /\ pendingCommands = <<>>
  /\ pendingServerCommands = <<>>
  /\ slots = <<>>
  /\ loop = <<>>
  /\ toolResults = <<>>
  /\ pendingCommand = NoPending
  /\ commandSessionRef = 0
  /\ serverSessionControllers = <<>>
  /\ sessions = <<>>
  /\ shuttingDown = FALSE
  /\ calls = <<>>
  /\ gwLog = NoLog

GwIdle == verbose = FALSE /\ GwQuiet

GrIdle ==
  /\ provider = ""
  /\ graphPc = "off"
  /\ stepCount = 0
  /\ iterationCount = 0
  /\ toolUses = 0
  /\ batchResults = <<>>
  /\ history = 0
  /\ queryContinues = FALSE
  /\ spinner = FALSE
  /\ saved = <<>>
  /\ thrown = "none"
  /\ batchOutcomes = <<>>
  /\ gate = <<>>
  /\ lastText = ""
  /\ toolEvents = <<>>
  /\ lastMessages = <<>>

StIdle ==
  /\ checkpoints = <<>>
  /\ wall = 0
  /\ threadId = ""
  /\ state = <<>>
  /\ disk = <<>>
  /\ lastGet = <<>>
  /\ lastUndo = <<>>
  /\ ops = 0

ObIdle ==
  /\ serverOutput = <<>>
  /\ received = <<>>

TuIdle == historicalSummaries = <<>> /\ turn = <<>>
TkIdle == tracked = <<>> /\ working = <<>> /\ trackLog = <<>>
CgIdle == pendingContinue = <<>> /\ waiters = <<>> /\ continueUi = <<>>
MkIdle == marked = <<>>
XtIdle == TuIdle /\ TkIdle /\ CgIdle /\ MkIdle

InitGateway == GwInit /\ PrIdle /\ CaIdle /\ GrIdle /\ StIdle /\ ObIdle /\ XtIdle

NextGateway ==
  \/ \E id \in Ids \cup {EmptyId}, isServer \in BOOLEAN : Dispatch(id, isServer)
  \/ AgentResume
  \/ \E sel \in {0, 1} : ArrowKey(sel)
  \/ \E spawnOk \in BOOLEAN : ReturnKey(spawnOk)
  \/ EscapeKey
  \/ \E sid \in 1..MaxDispatch, exitCode \in {0, 1} : ProcExit(sid, exitCode)
  \/ \E sid \in 1..MaxDispatch, killOk \in BOOLEAN : Timeout(sid, killOk)
  \/ \E writeOk \in BOOLEAN : KeyToPty(writeOk)
  \/ Shutdown
  \/ StopServer
  \/ NewTurn

SpecGateway == InitGateway /\ [][NextGateway]_vars


(***************************************************************************)
(* PART 2.  pruneMessages (agent_graph.ts).                                *)
(*                                                                         *)
(* A message is [role, str, txt, chars, content]: str says that content is *)
(* a string, of `chars` characters, whose text is named by txt; otherwise  *)
(* content is an array of blocks [type, id, txt, chars], where chars       *)
(* counts the characters of the block's strings other than its type.       *)
(***************************************************************************)
MAX_PROMPT_TOKEN_BUDGET == 180000
CeilingLLM == 50          \* callLLM: pruneMessages(state.messages, 50)
CeilingProvider == 49     \* callAnthropic / callOpenAI: pruneMessages(state.messages, 49)

\* Bounds of the pruning model.
MaxLen == 3               \* longest history of the exhaustive family
MaxPairs == 26            \* most tool iterations of a loop-shaped history
MaxPlain == 61            \* longest plain-text history
SmallChars == 8           \* characters of a short string
BigChars == 360000        \* a string of which two exceed the budget
HugeChars == 720000       \* a string that exceeds the budget alone
MaxBigPairs == 3          \* most tool iterations with a big tool-use input

TextMsg(role, txt, chars) ==
  [role |-> role, str |-> TRUE, txt |-> txt, chars |-> chars, content |-> <<>>]
BlockMsg(role, content) ==
  [role |-> role, str |-> FALSE, txt |-> 0, chars |-> 0, content |-> content]
TextBlock(txt, chars) == [type |-> "text", id |-> 0, txt |-> txt, chars |-> chars]
ToolUse(id, chars) == [type |-> "tool_use", id |-> id, txt |-> 0, chars |-> chars]
ToolResult(id, chars) == [type |-> "tool_result", id |-> id, txt |-> 0, chars |-> chars]

\* Array.prototype.filter on a block array.
RECURSIVE FilterBlocks(_, _)
FilterBlocks(content, types) ==
  IF content = <<>> THEN <<>>
  ELSE (IF Head(content).type \in types THEN <<Head(content)>> ELSE <<>>)
         \o FilterBlocks(Tail(content), types)

RECURSIVE SumChars(_)
SumChars(content) ==
  IF content = <<>> THEN 0
  ELSE Len(Head(content).type) + Head(content).chars + SumChars(Tail(content))

\* estimateTokensFromMessage: every string of the message is collected (the role,
\* the content string or the strings of every block); ceil(chars / 4) + 6.
estimateTokensFromMessage(msg) ==
  LET totalChars == Len(msg.role)
                      + (IF msg.str THEN msg.chars ELSE SumChars(msg.content))
  IN ((totalChars + 3) \div 4) + 6

hasToolResults(msg) ==
  ~msg.str /\ \E b \in 1..Len(msg.content) : msg.content[b].type = "tool_result"

hasToolUses(msg) ==
  ~msg.str /\ \E b \in 1..Len(msg.content) : msg.content[b].type = "tool_use"

ToolUseIds(msg) ==
  IF msg.str THEN {}
  ELSE {msg.content[b].id : b \in {x \in 1..Len(msg.content) : msg.content[x].type = "tool_use"}}

ToolResultIds(msg) ==
  IF msg.str THEN {}
  ELSE {msg.content[b].id :
          b \in {x \in 1..Len(msg.content) : msg.content[x].type = "tool_result"}}

NullSummary == [kind |-> "null", role |-> "", n |-> 0, of |-> <<>>]

\* summarizeMessage: "Tool results (n): id: ..." for a message with tool_result
\* blocks, "role: text" for text blocks or a string content, else null (the
\* tool_calls field does not occur in the messages this program stores).
summarizeMessage(msg) ==
  IF ~msg.str
  THEN LET toolBlocks == FilterBlocks(msg.content, {"tool_result"})
           textBlocks == FilterBlocks(msg.content, {"text"})
       IN IF toolBlocks # <<>>
          THEN [kind |-> "tool_results", role |-> "", n |-> Len(toolBlocks),
                of |-> [b \in 1..Len(toolBlocks) |-> toolBlocks[b].id]]
          ELSE IF textBlocks # <<>>
          THEN [kind |-> "text", role |-> msg.role, n |-> 0,
                of |-> [b \in 1..Len(textBlocks) |-> textBlocks[b].txt]]
          ELSE NullSummary
  ELSE [kind |-> "text", role |-> msg.role, n |-> 0, of |-> <<msg.txt>>]

\* `if (summary) archived.push(summary)`.
Archive(archived, msg) ==
  IF summarizeMessage(msg) = NullSummary THEN archived
  ELSE Append(archived, summarizeMessage(msg))


\* The backward scan over messages[len-1] .. messages[1] (here msgs[Len] .. msgs[2]);
\* selected holds the positions of the kept messages in push order.
RECURSIVE Scan(_, _, _, _, _, _, _)
Scan(msgs, i, selected, archived, usedTokens, maxM, maxT) ==
  IF i < 2 THEN [selected |-> selected, archived |-> archived]
  ELSE
    LET msg == msgs[i]
        tokens == estimateTokensFromMessage(msg)
        needsPreviousMessage == hasToolResults(msg) /\ i > 2
    IN IF ~needsPreviousMessage
            /\ (Len(selected) >= maxM - 1 \/ usedTokens + tokens > maxT)
       THEN Scan(msgs, i - 1, selected, Archive(archived, msg), usedTokens, maxM, maxT)
       ELSE IF needsPreviousMessage /\ (i - 1) \notin Range(selected)
       THEN Scan(msgs, i - 2, selected \o <<i, i - 1>>, archived,
                 usedTokens + tokens + estimateTokensFromMessage(msgs[i - 1]),
                 maxM, maxT)
       ELSE Scan(msgs, i - 1, Append(selected, i), archived, usedTokens + tokens,
                 maxM, maxT)

RECURSIVE ArchiveAll(_, _, _)
ArchiveAll(archived, msgs, positions) ==
  IF positions = <<>> THEN archived
  ELSE ArchiveAll(Archive(archived, msgs[Head(positions)]), msgs, Tail(positions))

\* The length trim: the overflow at the front is summarized, the last maxM stay.
Trim(msgs, pruned, archived, maxM) ==
  IF Len(pruned) > maxM
  THEN [pruned |-> SliceLast(pruned, maxM),
        archived |-> ArchiveAll(archived, msgs, SliceFirst(pruned, Len(pruned) - maxM))]
  ELSE [pruned |-> pruned, archived |-> archived]

RemoveAt(seq, i) == SubSeq(seq, 1, i - 1) \o SubSeq(seq, i + 1, Len(seq))

\* Mutant: the final pass strips the tool_result blocks of every message, whatever
\* its predecessor holds.
RECURSIVE RepairMutStripAll(_, _, _)
RepairMutStripAll(msgs, pruned, i) ==
  IF i > Len(pruned) THEN [msgs |-> msgs, pruned |-> pruned]
  ELSE
    LET msg == msgs[pruned[i]]
        stripped == FilterBlocks(msg.content, {"text", "tool_use"})
        mutated == [msgs EXCEPT ![pruned[i]].content = stripped]
    IN IF hasToolResults(msg)
       THEN IF stripped = <<>>
            THEN RepairMutStripAll(mutated, RemoveAt(pruned, i), i)
            ELSE RepairMutStripAll(mutated, pruned, i + 1)
       ELSE RepairMutStripAll(msgs, pruned, i + 1)

\* The final validation pass, from pruned[1] on (here position 2): a message with
\* tool_result blocks whose predecessor has no tool_use block loses those blocks,
\* in place, and is spliced out when nothing is left.
RECURSIVE Repair(_, _, _)
Repair(msgs, pruned, i) ==
  IF i > Len(pruned) THEN [msgs |-> msgs, pruned |-> pruned]
  ELSE
    LET msg == msgs[pruned[i]]
        prevMsg == msgs[pruned[i - 1]]
        stripped == FilterBlocks(msg.content, {"text", "tool_use"})
        mutated == [msgs EXCEPT ![pruned[i]].content = stripped]
    IN IF hasToolResults(msg) /\ ~hasToolUses(prevMsg)
       THEN IF stripped = <<>>
            THEN Repair(mutated, RemoveAt(pruned, i), i)
            ELSE Repair(mutated, pruned, i + 1)
       ELSE Repair(msgs, pruned, i + 1)

PruneResult(msgs, kept, archived) ==
  [prunedMessages |-> [k \in 1..Len(kept) |-> msgs[kept[k]]],
   archivedSummaries |-> archived,
   kept |-> kept,         \* which input messages the result holds (object identity)
   input |-> msgs]        \* the input array after the call (mutated in place)

\* Mutant: the backward scan keeps one message more than the ceiling allows.
PruneMessagesMutOffByOne(msgs, maxM, maxT) ==
  IF msgs = <<>> THEN PruneResult(msgs, <<>>, <<>>)
  ELSE IF estimateTokensFromMessage(msgs[1]) > maxT
  THEN PruneResult(msgs, <<1>>, <<>>)
  ELSE
    LET scan == Scan(msgs, Len(msgs), <<>>, <<>>, estimateTokensFromMessage(msgs[1]),
                     maxM + 1, maxT)
        rep == Repair(msgs, <<1>> \o Reverse(scan.selected), 2)
    IN PruneResult(rep.msgs, rep.pruned, scan.archived)

pruneMessages(msgs, maxM, maxT) ==
  IF msgs = <<>> THEN PruneResult(msgs, <<>>, <<>>)
  ELSE IF estimateTokensFromMessage(msgs[1]) > maxT
  THEN PruneResult(msgs, <<1>>, <<>>)
  ELSE
    LET scan == Scan(msgs, Len(msgs), <<>>, <<>>, estimateTokensFromMessage(msgs[1]),
                     maxM, maxT)
        trim == Trim(msgs, <<1>> \o Reverse(scan.selected), scan.archived, maxM)
        rep == Repair(msgs, trim.pruned, 2)
    IN PruneResult(rep.msgs, SliceLast(rep.pruned, maxM), trim.archived)

(***************************************************************************)
(* The histories pruneMessages is applied to.                              *)
(***************************************************************************)
\* A conversation turn: the query, then one assistant message with a tool use
\* and one user message with its result per iteration of the loop.
LoopHistory(k) ==
  [i \in 1..(1 + 2 * k) |->
     IF i = 1 THEN TextMsg("user", 1, SmallChars)
     ELSE IF i % 2 = 0
     THEN BlockMsg("assistant", <<TextBlock(i, SmallChars), ToolUse(i \div 2, SmallChars)>>)
     ELSE BlockMsg("user", <<ToolResult(i \div 2, SmallChars)>>)]

\* The same turn with tool uses that carry a big input (a write_file content).
BigLoopHistory(k) ==
  [i \in 1..(1 + 2 * k) |->
     IF i = 1 THEN TextMsg("user", 1, SmallChars)
     ELSE IF i % 2 = 0
     THEN BlockMsg("assistant", <<ToolUse(i \div 2, BigChars)>>)
     ELSE BlockMsg("user", <<ToolResult(i \div 2, SmallChars)>>)]

PlainHistory(n) ==
  [i \in 1..n |-> TextMsg(IF i % 2 = 1 THEN "user" ELSE "assistant", i, SmallChars)]

\* A plain history whose messages p and p+1 are a tool use and its result.
PairHistory(n, p) ==
  [i \in 1..n |->
     IF i = p THEN BlockMsg("assistant", <<ToolUse(p, SmallChars)>>)
     ELSE IF i = p + 1 THEN BlockMsg("user", <<ToolResult(p, SmallChars)>>)
     ELSE TextMsg(IF i % 2 = 1 THEN "user" ELSE "assistant", i, SmallChars)]

\* The kinds of message of the exhaustive family.
Kinds ==
  { TextMsg("user", 1, SmallChars),
    TextMsg("user", 2, BigChars),
    TextMsg("user", 3, HugeChars),
    BlockMsg("assistant", <<TextBlock(4, SmallChars)>>),
    BlockMsg("assistant", <<TextBlock(5, BigChars)>>),
    BlockMsg("assistant", <<TextBlock(6, SmallChars), ToolUse(1, SmallChars)>>),
    BlockMsg("assistant", <<ToolUse(2, BigChars)>>),
    BlockMsg("user", <<ToolResult(1, SmallChars)>>),
    BlockMsg("user", <<ToolResult(2, SmallChars)>>),
    BlockMsg("user", <<ToolResult(1, SmallChars), TextBlock(7, SmallChars)>>) }

Histories ==
  (UNION {[1..n -> Kinds] : n \in 0..MaxLen})
    \cup {LoopHistory(k) : k \in 0..MaxPairs}
    \cup {BigLoopHistory(k) : k \in 1..MaxBigPairs}
    \cup {PlainHistory(n) : n \in 1..MaxPlain}
    \cup UNION {{PairHistory(n, p) : p \in 2..(n - 1)} : n \in (MaxPlain - 10)..MaxPlain}

NoPruneOut == [prunedMessages |-> <<>>, archivedSummaries |-> <<>>, kept |-> <<>>,
               input |-> <<>>]

PrInit ==
  /\ messages \in Histories
  /\ maxMessages \in {CeilingLLM, CeilingProvider}
  /\ maxTokens = MAX_PROMPT_TOKEN_BUDGET
  /\ pruneOut = NoPruneOut
  /\ prunePc = "input"

\* callLLM / callAnthropic / callOpenAI call pruneMessages on state.messages.
PruneMessages ==
  /\ prunePc = "input"
  /\ pruneOut' = pruneMessages(messages, maxMessages, maxTokens)
  /\ prunePc' = "done"
  /\ UNCHANGED <<messages, maxMessages, maxTokens>>
  /\ UNCHANGED <<gwVars, caVars, grVars, stVars, obVars, xtVars>>

InitPrune == GwIdle /\ PrInit /\ CaIdle /\ GrIdle /\ StIdle /\ ObIdle /\ XtIdle

NextPrune == PruneMessages

SpecPrune == InitPrune /\ [][NextPrune]_vars


(***************************************************************************)
(* PART 3.  The open-file cache kept by executeTools (agent_graph.ts).     *)
(*                                                                         *)
(* The cache is a Map: a sequence of entries [path, lastRead] in insertion *)
(* order. Paths are numbered in the order of their first use.              *)
(***************************************************************************)
CacheLimit == 15          \* evictOldCacheEntries(openFiles, 15)

\* Bounds of the cache model.
MaxPaths == 17            \* distinct file paths
MaxBatches == 2           \* executeTools calls
MaxRetouch == 1           \* the paths 1..MaxRetouch are read or written again

\* Position of the entry of a path in the Map, 0 when it has none.
IndexOf(cache, path) ==
  IF \E i \in 1..Len(cache) : cache[i].path = path
  THEN CHOOSE i \in 1..Len(cache) : cache[i].path = path
  ELSE 0

\* Map.set and the in-place update of write_file: an existing key keeps its
\* place, a new key goes to the end.
CacheSet(cache, path, t) ==
  IF IndexOf(cache, path) # 0
  THEN [cache EXCEPT ![IndexOf(cache, path)].lastRead = t]
  ELSE Append(cache, [path |-> path, lastRead |-> t])

\* The first entry of the cache sorted by lastRead ascending (a stable sort):
\* the earliest inserted among those with the least lastRead.
Oldest(cache) ==
  CHOOSE i \in 1..Len(cache) :
    \A j \in 1..Len(cache) :
      \/ cache[i].lastRead < cache[j].lastRead
      \/ (cache[i].lastRead = cache[j].lastRead /\ i <= j)

\* evictOldCacheEntries deletes entries[0 .. toRemove-1] of the sorted entries.
RECURSIVE DeleteOldest(_, _)
DeleteOldest(cache, toRemove) ==
  IF toRemove <= 0 \/ cache = <<>> THEN cache
  ELSE DeleteOldest(RemoveAt(cache, Oldest(cache)), toRemove - 1)

\* Mutant: the size limit is not enforced.
EvictMutNoop(cache, maxSize) == cache

\* Mutant: the sort is descending, the most recently read entry is deleted.
EvictMutNewest(cache, maxSize) ==
  IF Len(cache) <= maxSize THEN cache
  ELSE LET newest == CHOOSE i \in 1..Len(cache) :
                       \A j \in 1..Len(cache) :
                         \/ cache[i].lastRead > cache[j].lastRead
                         \/ (cache[i].lastRead = cache[j].lastRead /\ i >= j)
       IN RemoveAt(cache, newest)

\* evictOldCacheEntries(cache, maxSize).
evictOldCacheEntries(cache, maxSize) ==
  IF Len(cache) <= maxSize THEN cache
  ELSE DeleteOldest(cache, Len(cache) - maxSize)

\* The entries of the Map `before` whose key the Map `after` no longer has.
RECURSIVE Removed(_, _)
Removed(before, after) ==
  IF before = <<>> THEN <<>>
  ELSE (IF IndexOf(after, Head(before).path) = 0 THEN <<Head(before)>> ELSE <<>>)
         \o Removed(Tail(before), after)

\* The place in `before` of the first such entry, 0 when there is none.
FirstRemoved(before, after) ==
  IF \E i \in 1..Len(before) : IndexOf(after, before[i].path) = 0
  THEN CHOOSE i \in 1..Len(before) :
         /\ IndexOf(after, before[i].path) = 0
         /\ \A j \in 1..(i - 1) : IndexOf(after, before[j].path) # 0
  ELSE 0

\* The last execution that set a cache entry: its path, the size of the Map
\* after the set, the entries evicted and the place the first of them had.
NoEvict == [path |-> 0, size |-> 0, evicted |-> <<>>, pos |-> 0]

CaInit ==
  /\ openFiles = <<>>
  /\ batchFiles = <<>>
  /\ now = 0
  /\ clock = 0
  /\ cachePc = "idle"
  /\ lastEvict = NoEvict
  /\ seenPaths = 0

\* executeTools starts: the working copy of the cache is made and Date.now() is
\* read once; calls are separated by a model call, so `now` grows from call to call.
StartBatch ==
  /\ cachePc = "idle"
  /\ clock < MaxBatches
  /\ clock' = clock + 1
  /\ now' = clock + 1
  /\ batchFiles' = openFiles
  /\ cachePc' = "exec"
  /\ UNCHANGED <<openFiles, lastEvict, seenPaths>>
  /\ UNCHANGED <<gwVars, prVars, grVars, stVars, obVars, xtVars>>

\* One read_file or write_file tool use of the running executeTools call; ok is
\* FALSE when the tool throws (or read_file returns no string): the cache is
\* left alone. Otherwise the entry is set and the size limit is enforced.
ExecTool(name, path, ok) ==
  /\ cachePc = "exec"
  /\ \/ path = seenPaths + 1 /\ path <= MaxPaths
     \/ path <= seenPaths /\ path <= MaxRetouch
  /\ IF ok
     THEN \E set \in {CacheSet(batchFiles, path, now)} :
            \E after \in {evictOldCacheEntries(set, CacheLimit)} :
              /\ batchFiles' = after
              /\ seenPaths' = Max(seenPaths, path)
              /\ lastEvict' = [path |-> path, size |-> Len(set),
                                evicted |-> Removed(set, after),
                                pos |-> FirstRemoved(set, after)]
     ELSE UNCHANGED <<batchFiles, lastEvict, seenPaths>>
  /\ UNCHANGED <<openFiles, now, clock, cachePc>>
  /\ UNCHANGED <<gwVars, prVars, grVars, stVars, obVars, xtVars>>

\* executeTools returns: the working copy becomes state.openFiles.
EndBatch ==
  /\ cachePc = "exec"
  /\ openFiles' = batchFiles
  /\ cachePc' = "idle"
  /\ UNCHANGED <<batchFiles, now, clock, lastEvict, seenPaths>>
  /\ UNCHANGED <<gwVars, prVars, grVars, stVars, obVars, xtVars>>

InitCache == GwIdle /\ PrIdle /\ CaInit /\ GrIdle /\ StIdle /\ ObIdle /\ XtIdle

NextCache ==
  \/ StartBatch
  \/ \E name \in {"read_file", "write_file"}, path \in 1..MaxPaths, ok \in BOOLEAN :
       ExecTool(name, path, ok)
  \/ EndBatch

SpecCache == InitCache /\ [][NextCache]_vars

(***************************************************************************)
(* PART 4. The conversation graph (agent_graph.ts: createAgentGraph,       *)
(* runAgentGraph, callLLM, shouldContinue, executeTools, formatResults).   *)
(* The graph runtime runs one node per superstep. Every node and every     *)
(* edge function is handed a state object read from the channels; only the *)
(* partial state a node returns is written back, through the channel       *)
(* reducers (y ?? x). After a superstep the runtime writes a checkpoint,   *)
(* and it rejects invoke once recursionLimit supersteps have run without   *)
(* reaching END. One behaviour is one call of runAgentGraph on a thread.   *)
(***************************************************************************)
SoftLimit == 25           \* shouldContinue: currentCount >= 25
RecursionLimit == 200     \* runAgentGraph: config.recursionLimit

MaxBatch == 2             \* most tool uses in one model response

\* What followed the last 'continue': the counter the next executeTools step was
\* handed, the executeTools steps since, and how many there were at the next prompt.
\* answer: "pending" once shouldContinue wrote ITERATION_LIMIT_REACHED and awaits
\* waitForContinue, then what the terminal UI resolved it with.
NoGate == [continued |-> FALSE, observed |-> <<>>, execs |-> 0, gap |-> <<>>,
           answer |-> "none"]

\* The iteration counts a thread can be resumed with: a fresh thread, and a
\* thread whose last turn stopped with the counter at the soft limit.
ResumeCounts == {0, SoftLimit}

Nodes == {"callLLM", "executeTools", "formatResults", "end"}

\* The runtime runs another superstep only below the recursion limit.
WithinLimitMutUnbounded(s) == TRUE

WithinLimit(s) == s < RecursionLimit

\* callLLM, resetCounter: the counter is at the limit and the last message is a
\* user message whose text contains 'continue', 'yes' or 'keep going'. Only the
\* user query is such a message: a tool-result message has no content[0].text.
ResetCounter ==
  /\ iterationCount >= SoftLimit
  /\ history = 1
  /\ queryContinues

\* callAnthropic / callOpenAI on failure: which failures the try block catches
\* (the catch stops the spinner and rethrows). anthropic.messages.stream only
\* builds the stream, so every failure surfaces inside the try; callOpenAI
\* awaits openai.chat.completions.create before its try.
Caught(prov, phase) == prov = "anthropic" \/ phase # "create"

\* The result block executeTools pushes for one tool use: from the try on
\* return, from the catch on a throw ('Error: ' + the error's message).
ToolResultOf(i, outcome) ==
  IF outcome = "ok"
  THEN [tool_use_id |-> i, is_error |-> FALSE, content |-> "result"]
  ELSE [tool_use_id |-> i, is_error |-> TRUE, content |-> "Error: " \o outcome]

\* Mutant: the first throw leaves the loop over the batch.
RunToolsMutStopAtThrow(outcomes) ==
  LET firstThrow == {i \in 1..Len(outcomes) : outcomes[i] # "ok"}
      n == IF firstThrow = {} THEN Len(outcomes)
           ELSE CHOOSE i \in firstThrow : \A j \in firstThrow : i <= j
  IN [i \in 1..n |-> ToolResultOf(i, outcomes[i])]

\* executeTools: `for (const toolUse of state.toolUses)`, try / catch inside.
RunTools(outcomes) == [i \in 1..Len(outcomes) |-> ToolResultOf(i, outcomes[i])]

Outcomes(n) == [1..n -> {"ok", "ENOENT"}]

\* Mutant: the batch is started at once (Promise.all), the results are collected
\* afterwards.
ToolEventsMutAllAtOnce(i, outcomes, waits) ==
  [k \in 1..Len(outcomes) |-> [ev |-> "invoke", id |-> k]]
    \o [k \in 1..Len(outcomes) |-> [ev |-> "result", id |-> k]]

\* executeTools, the loop from tool use i on: `await executeTool(...)`, for a
\* command the tool hands to the terminal UI (i \in waits) `await
\* waitForCommandCompletion(...)` or waitForServerCommand, then the one push of
\* the try or of the catch; the next round starts after that.
RECURSIVE ToolEvents(_, _, _)
ToolEvents(i, outcomes, waits) ==
  IF i > Len(outcomes) THEN <<>>
  ELSE <<[ev |-> "invoke", id |-> i]>>
         \o (IF i \in waits THEN <<[ev |-> "await", id |-> i]>> ELSE <<>>)
         \o <<[ev |-> "result", id |-> i]>>
         \o ToolEvents(i + 1, outcomes, waits)

\* callLLM: the assistant message appended to the history, with n tool uses
\* (ids 1..n in the order of the response).
AssistantMessage(n) == [role |-> "assistant", content |-> [i \in 1..n |-> i]]

\* formatResults: the user message made of state.toolResults.
ToolResultsMessage(results) ==
  [role |-> "user",
   content |-> [i \in 1..Len(results) |->
                  [type |-> "tool_result", tool_use_id |-> results[i].tool_use_id,
                   content |-> results[i].content, is_error |-> results[i].is_error]]]

GrInit ==
  /\ provider \in {"anthropic", "openai"}
  /\ graphPc = "idle"
  /\ stepCount = 0
  /\ iterationCount \in ResumeCounts
  /\ toolUses = 0
  /\ batchResults = <<>>
  /\ history = 0
  /\ queryContinues = FALSE
  /\ spinner = FALSE
  /\ saved = [iterationCount |-> iterationCount, history |-> 0]
  /\ thrown = "none"
  /\ batchOutcomes = <<>>
  /\ gate = NoGate
  /\ lastText = ""
  /\ toolEvents = <<>>
  /\ lastMessages = <<>>

\* The end of a superstep: the runtime writes the checkpoint of the channels
\* (SqliteCheckpointSaver.put). put has no try / catch and nothing in the graph
\* definition handles its rejection, which therefore rejects invoke.
Superstep(next, ok, count, len) ==
  /\ stepCount' = stepCount + 1
  /\ IF ok
     THEN /\ graphPc' = next
          /\ saved' = [iterationCount |-> count, history |-> len]
          /\ UNCHANGED thrown
     ELSE /\ graphPc' = "failed"
          /\ thrown' = "checkpoint"
          /\ UNCHANGED saved

\* runAgentGraph: graph.invoke(input, config). The input's messages replace the
\* history, the other channels keep the values of the thread's checkpoint; the
\* runtime checkpoints the input before the first node runs.
StartTurn(q, ok) ==
  /\ graphPc = "idle"
  /\ history' = 1
  /\ lastMessages' = <<[role |-> "user", content |-> <<>>]>>
  /\ queryContinues' = q
  /\ IF ok
     THEN /\ graphPc' = "callLLM"
          /\ saved' = [iterationCount |-> iterationCount, history |-> 1]
          /\ UNCHANGED thrown
     ELSE /\ graphPc' = "failed"
          /\ thrown' = "checkpoint"
          /\ UNCHANGED saved
  /\ UNCHANGED <<provider, stepCount, iterationCount, toolUses, batchResults, spinner,
                  batchOutcomes, gate, lastText, toolEvents>>
  /\ UNCHANGED <<gwVars, prVars, caVars, stVars, obVars, xtVars>>

\* The last text block of a model response, lower-cased: without and with one of
\* the phrases shouldContinue looks for ('completed', 'finished', 'done', ...).
Texts == {"reading the file", "all done"}
HasCompletionPhrase(text) == text = "all done"

\* Mutant: a completion phrase ends the turn.
ShouldContinueMutPhrase(n, count, text) ==
  IF n = 0 THEN "end"
  ELSE IF count >= SoftLimit THEN "ask"
  ELSE IF HasCompletionPhrase(text) THEN "end"
  ELSE "continue"

\* shouldContinue up to its await: 'end' without tool uses, the prompt ("ask")
\* at the soft limit, and 'continue' from both branches of the phrase test.
shouldContinue(n, count, text) ==
  IF n = 0 THEN "end"
  ELSE IF count >= SoftLimit THEN "ask"
  ELSE IF HasCompletionPhrase(text) THEN "continue"
  ELSE "continue"

\* Node callLLM with the conditional edge shouldContinue behind it. phase says
\* how the provider call ends: it fails while the request is created, while
\* the stream is read or while the reply is put together, or it returns n
\* tool uses ("reply"). On a reply the edge ends the turn without tool uses,
\* asks the user at the soft limit, and goes to executeTools otherwise.
CallLLM(phase, n, text, ok) ==
  /\ graphPc = "callLLM"
  /\ WithinLimit(stepCount)
  /\ IF phase # "reply"
     THEN /\ n = 0 /\ ok
          /\ spinner' = (~verbose /\ ~Caught(provider, phase))
          /\ graphPc' = "failed"
          /\ thrown' = "llm"
          /\ UNCHANGED <<stepCount, iterationCount, toolUses, history, saved, gate,
                          lastText, lastMessages>>
     ELSE LET count == IF ResetCounter THEN 0 ELSE iterationCount
              len == (IF history > CeilingProvider THEN CeilingProvider ELSE history) + 1
              route == shouldContinue(n, count, text)
          IN /\ spinner' = FALSE
             /\ iterationCount' = count
             /\ toolUses' = n
             /\ lastText' = text
             /\ history' = len
             /\ lastMessages' = <<AssistantMessage(n)>>
             /\ IF route = "end"
                THEN Superstep("end", ok, count, len) /\ UNCHANGED gate
                ELSE IF route = "ask"
                THEN /\ ok
                     /\ graphPc' = "gate"
                     /\ gate' = [gate EXCEPT !.gap = IF gate.continued THEN <<gate.execs>>
                                                      ELSE gate.gap,
                                              !.answer = "pending"]
                     /\ UNCHANGED <<stepCount, saved, thrown>>
                ELSE Superstep("executeTools", ok, count, len) /\ UNCHANGED gate
  /\ UNCHANGED <<provider, batchResults, queryContinues, batchOutcomes, toolEvents>>
  /\ UNCHANGED <<gwVars, prVars, caVars, stVars, obVars, xtVars>>

\* shouldContinue resumes after `await waitForContinue()`: the terminal UI
\* resolved it with true (Return on Yes) or false (Return on No, Escape). On
\* true the function assigns 0 to iterationCount of the state object it was
\* handed and returns 'continue'; the assignment is no channel update, so the
\* channel keeps its value.
\* Mutant: the answer is not looked at, the batch runs.
GateMutIgnoreAnswer(answer, ok) ==
  /\ graphPc = "gate"
  /\ Superstep("executeTools", ok, iterationCount, history)
  /\ gate' = [continued |-> TRUE, observed |-> <<>>, execs |-> 0, gap |-> <<>>,
              answer |-> IF answer THEN "continue" ELSE "stop"]
  /\ UNCHANGED <<provider, iterationCount, toolUses, batchResults, history,
                  queryContinues, spinner, batchOutcomes, lastText, toolEvents,
                  lastMessages>>
  /\ UNCHANGED <<gwVars, prVars, caVars, stVars, obVars, xtVars>>

Gate(answer, ok) ==
  /\ graphPc = "gate"
  /\ IF answer
     THEN /\ Superstep("executeTools", ok, iterationCount, history)
          /\ gate' = [continued |-> TRUE, observed |-> <<>>, execs |-> 0, gap |-> <<>>,
                      answer |-> "continue"]
     ELSE /\ Superstep("end", ok, iterationCount, history)
          /\ gate' = [gate EXCEPT !.answer = "stop"]
  /\ UNCHANGED <<provider, iterationCount, toolUses, batchResults, history,
                  queryContinues, spinner, batchOutcomes, lastText, toolEvents,
                  lastMessages>>
  /\ UNCHANGED <<gwVars, prVars, caVars, stVars, obVars, xtVars>>

\* Mutant: the counter counts tool uses.
NextIterationCountMutPerTool(count, outcomes) == count + Len(outcomes)

\* executeTools, return value: iterationCount: (state.iterationCount || 0) + 1.
NextIterationCount(count, outcomes) == count + 1

\* Node executeTools: runs every tool use of the batch and returns the results
\* and iterationCount: (state.iterationCount || 0) + 1.
ExecuteTools(outcomes, waits, ok) ==
  /\ graphPc = "executeTools"
  /\ WithinLimit(stepCount)
  /\ Len(outcomes) = toolUses
  /\ toolEvents' = ToolEvents(1, outcomes, waits)
  /\ batchResults' = RunTools(outcomes)
  /\ batchOutcomes' = outcomes
  /\ iterationCount' = NextIterationCount(iterationCount, outcomes)
  /\ gate' = IF gate.continued
             THEN [gate EXCEPT !.observed = IF gate.observed = <<>> THEN <<iterationCount>>
                                             ELSE gate.observed,
                               !.execs = gate.execs + 1]
             ELSE gate
  /\ Superstep("formatResults", ok, NextIterationCount(iterationCount, outcomes), history)
  /\ UNCHANGED <<provider, toolUses, history, queryContinues, spinner, lastText,
                  lastMessages>>
  /\ UNCHANGED <<gwVars, prVars, caVars, stVars, obVars, xtVars>>

\* Node formatResults: appends the tool-result message to the history.
FormatResults(ok) ==
  /\ graphPc = "formatResults"
  /\ WithinLimit(stepCount)
  /\ history' = history + 1
  /\ lastMessages' = Append(lastMessages, ToolResultsMessage(batchResults))
  /\ toolEvents' = <<>>
  /\ Superstep("callLLM", ok, iterationCount, history + 1)
  /\ UNCHANGED <<provider, iterationCount, toolUses, batchResults, queryContinues,
                  spinner, batchOutcomes, gate, lastText>>
  /\ UNCHANGED <<gwVars, prVars, caVars, stVars, obVars, xtVars>>

\* Node end: output.stopSpinner(true, 'Agent completed').
End(ok) ==
  /\ graphPc = "end"
  /\ WithinLimit(stepCount)
  /\ spinner' = FALSE
  /\ Superstep("done", ok, iterationCount, history)
  /\ UNCHANGED <<provider, iterationCount, toolUses, batchResults, history,
                  queryContinues, batchOutcomes, gate, lastText, toolEvents,
                  lastMessages>>
  /\ UNCHANGED <<gwVars, prVars, caVars, stVars, obVars, xtVars>>

\* The runtime at the recursion limit with a node still to run: invoke rejects.
RecursionError ==
  /\ graphPc \in Nodes
  /\ ~WithinLimit(stepCount)
  /\ graphPc' = "failed"
  /\ thrown' = "recursion"
  /\ UNCHANGED <<provider, stepCount, iterationCount, toolUses, batchResults, history,
                  queryContinues, spinner, saved, batchOutcomes, gate, lastText,
                  toolEvents, lastMessages>>
  /\ UNCHANGED <<gwVars, prVars, caVars, stVars, obVars, xtVars>>

InitGraph ==
  verbose \in BOOLEAN /\ GwQuiet /\ PrIdle /\ CaIdle /\ GrInit /\ StIdle /\ ObIdle /\ XtIdle

NextGraph ==
  \/ \E q \in BOOLEAN, ok \in BOOLEAN : StartTurn(q, ok)
  \/ \E phase \in {"create", "stream", "final", "reply"}, n \in 0..MaxBatch,
        text \in Texts, ok \in BOOLEAN : CallLLM(phase, n, text, ok)
  \/ \E answer \in BOOLEAN, ok \in BOOLEAN : Gate(answer, ok)
  \/ \E n \in 1..MaxBatch : \E outcomes \in Outcomes(n), waits \in SUBSET (1..n),
        ok \in BOOLEAN : ExecuteTools(outcomes, waits, ok)
  \/ \E ok \in BOOLEAN : FormatResults(ok)
  \/ \E ok \in BOOLEAN : End(ok)
  \/ RecursionError

SpecGraph == InitGraph /\ [][NextGraph]_vars

\* The event loop runs every node that is ready, and the user answers the
\* iteration-limit prompt.
SpecGraphFair == SpecGraph /\ WF_vars(NextGraph)

(***************************************************************************)
(* PART 5. The checkpoint store (index.ts: SqliteCheckpointSaver) and      *)
(* undoLastChange (agent_graph.ts), with the part of executeTools that     *)
(* keeps the undo history of write_file.                                   *)
(***************************************************************************)
VersionLimit == 10        \* write_file: previousVersions.length > 10
ChangeLimit == 20         \* executeTools: recentChanges.slice(-maxHistory)

MaxOps == 4               \* operations of one behaviour

Paths == {1, 2}
NoPath == 0               \* /undo without a path
Contents == {"A", "B"}
Threads == {"default", "session"}
NoCheckpointId == 0       \* getTuple without configurable.checkpoint_id

\* A channel value; Undef is the JavaScript value undefined.
Chan(v) == [def |-> TRUE, v |-> v]
Undef == [def |-> FALSE, v |-> 0]
Channels == {"messages", "lastResponse", "recentChanges", "iterationCount", "openFiles"}

\* obj[c], undefined for a key the object does not have.
Get(obj, c) == IF c \in DOMAIN obj THEN obj[c] ELSE Undef

\* Array.from(map.keys()).
Keys(cache) == [i \in 1..Len(cache) |-> cache[i].path]

\* serializeCheckpoint: a truthy openFiles is replaced by the list of its keys.
serializeCheckpoint(values) ==
  IF Get(values, "openFiles").def
  THEN [values EXCEPT !["openFiles"] = Chan(Keys(values["openFiles"].v))]
  ELSE values

\* JSON.stringify of an object: a key whose value is undefined is left out.
JSONStringify(obj) == [c \in {k \in DOMAIN obj : obj[k].def} |-> obj[c].v]

\* JSON.parse of that text.
JSONParse(text) == [c \in DOMAIN text |-> Chan(text[c])]

\* Mutant: the stored list of paths is handed back as the cache.
DeserializeCheckpointMutKeep(values) == values

\* deserializeCheckpoint: an openFiles that is an array becomes `new Map()`.
deserializeCheckpoint(values) ==
  IF Get(values, "openFiles").def
  THEN [values EXCEPT !["openFiles"] = Chan(<<>>)]
  ELSE values

\* INSERT OR REPLACE on the primary key (thread_id, checkpoint_id): a row with
\* the same key is deleted, the new row gets a new rowid.
RECURSIVE DeleteKey(_, _, _)
DeleteKey(rows, thread, id) ==
  IF rows = <<>> THEN <<>>
  ELSE IF Head(rows).thread_id = thread /\ Head(rows).checkpoint_id = id
       THEN DeleteKey(Tail(rows), thread, id)
       ELSE <<Head(rows)>> \o DeleteKey(Tail(rows), thread, id)

\* put: the row written for the channel values `values`.
put(rows, thread, id, values, t) ==
  Append(DeleteKey(rows, thread, id),
         [thread_id |-> thread, checkpoint_id |-> id, created_at |-> t,
          checkpoint_data |-> JSONStringify(serializeCheckpoint(values)),
          values |-> values])

\* The rows a getTuple query can return. With a checkpoint id: the row of that
\* key. Without: ORDER BY created_at DESC LIMIT 1, which is any one of the
\* thread's rows with the greatest created_at (SQL leaves the order of equal
\* keys open).
Selected(rows, thread, id) ==
  IF id # NoCheckpointId
  THEN {i \in 1..Len(rows) : rows[i].thread_id = thread /\ rows[i].checkpoint_id = id}
  ELSE {i \in 1..Len(rows) :
          /\ rows[i].thread_id = thread
          /\ \A j \in 1..Len(rows) :
               rows[j].thread_id = thread => rows[j].created_at <= rows[i].created_at}

\* getTuple on the row at position i (0: no row, the result is undefined).
getTuple(rows, i) ==
  IF i = 0 THEN [found |-> FALSE, row |-> 0, values |-> <<>>]
  ELSE [found |-> TRUE, row |-> i,
        values |-> deserializeCheckpoint(JSONParse(rows[i].checkpoint_data))]

\* The positions getTuple can read for a query, 0 when no row matches.
Rows(rows, thread, id) ==
  IF Selected(rows, thread, id) = {} THEN {0} ELSE Selected(rows, thread, id)

NoCache == <<>>
NewState == [messages |-> Chan(0), lastResponse |-> Undef, recentChanges |-> Chan(<<>>),
             iterationCount |-> Chan(0), openFiles |-> Chan(NoCache)]

\* executeTools on a write_file that returned: the change is recorded, the
\* cached content moves to previousVersions (at most 10, and only a non-empty
\* content), a path without an entry gets one with no previous version.
TrackWrite(cache, path, content, t) ==
  LET i == IndexOf(cache, path)
  IN evictOldCacheEntries(
       IF i # 0
       THEN [cache EXCEPT ![i] =
               [path |-> path, content |-> content, lastRead |-> t,
                previousVersions |->
                  IF cache[i].content # ""
                  THEN SliceLast(Append(cache[i].previousVersions, cache[i].content),
                                 VersionLimit)
                  ELSE cache[i].previousVersions]]
       ELSE Append(cache, [path |-> path, content |-> content, lastRead |-> t,
                           previousVersions |-> <<>>]),
       CacheLimit)

NoUndo == [at |-> 0, success |-> FALSE, message |-> "", path |-> NoPath, restored |-> ""]
UndoFailure(msg, path) ==
  [at |-> ops + 1, success |-> FALSE, message |-> msg, path |-> path, restored |-> ""]

\* undoLastChange(filePath) on the tuple getTuple returned for thread 'default'.
\* The whole body is inside try / catch; a throwing writeFileTool gives
\* 'Undo failed'.
undoLastChange(tuple, filePath, writeOk) ==
  IF ~tuple.found THEN UndoFailure("No file history available", filePath)
  ELSE
  LET files == Get(tuple.values, "openFiles").v
      changes == IF Get(tuple.values, "recentChanges").def
                 THEN tuple.values["recentChanges"].v ELSE <<>>
      target == IF filePath # NoPath THEN filePath
                ELSE IF changes # <<>> THEN changes[Len(changes)] ELSE NoPath
      i == IndexOf(files, target)
  IN IF target = NoPath THEN UndoFailure("No recent changes to undo", target)
     ELSE IF i = 0 \/ files[i].previousVersions = <<>>
     THEN UndoFailure("No previous version available", target)
     ELSE IF ~writeOk THEN UndoFailure("Undo failed", target)
     ELSE [at |-> ops + 1, success |-> TRUE, message |-> "Restored previous version",
           path |-> target,
           restored |-> files[i].previousVersions[Len(files[i].previousVersions)]]

NoGet == [at |-> 0, thread |-> "", id |-> NoCheckpointId, found |-> FALSE,
          row |-> 0, values |-> <<>>]

StInit ==
  /\ checkpoints = <<>>
  /\ wall = 1
  /\ threadId \in Threads
  /\ state = NewState
  /\ disk = [p \in Paths |-> ""]
  /\ lastGet = NoGet
  /\ lastUndo = NoUndo
  /\ ops = 0

\* graph.invoke on the session's thread: the runtime loads the thread's latest
\* checkpoint into the channels; the input replaces the messages.
Invoke ==
  /\ ops < MaxOps
  /\ ops' = ops + 1
  /\ \E i \in 0..MaxOps :
       /\ i \in Rows(checkpoints, threadId, NoCheckpointId)
       /\ state' = IF i = 0 THEN NewState
                   ELSE LET got == getTuple(checkpoints, i).values
                        IN [c \in Channels |->
                              IF c = "messages" THEN Chan(1) ELSE Get(got, c)]
  /\ UNCHANGED <<checkpoints, wall, threadId, disk, lastGet, lastUndo>>
  /\ UNCHANGED <<gwVars, prVars, caVars, grVars, obVars, xtVars>>

\* executeTools runs write_file(path, content): writeFileTool writes the disk;
\* when it throws nothing is tracked.
WriteFile(path, content, ok) ==
  /\ ops < MaxOps
  /\ ops' = ops + 1
  /\ IF ok
     THEN /\ disk' = [disk EXCEPT ![path] = content]
          /\ state' = [state EXCEPT
                 !["openFiles"] = Chan(TrackWrite(state["openFiles"].v, path, content, wall)),
                 !["recentChanges"] =
                     Chan(SliceLast(Append(state["recentChanges"].v, path), ChangeLimit)),
                 !["lastResponse"] = Chan(ops + 1),
                 !["iterationCount"] = Chan(state["iterationCount"].v + 1)]
     ELSE UNCHANGED <<disk, state>>
  /\ UNCHANGED <<checkpoints, wall, threadId, lastGet, lastUndo>>
  /\ UNCHANGED <<gwVars, prVars, caVars, grVars, obVars, xtVars>>

\* The runtime persists the channels: put under the session's thread, with the
\* checkpoint's own id and created_at = Date.now(), which has not moved (tick
\* 0) or has moved on since the last put. A failing statement throws before
\* any row is written.
Put(tick, ok) ==
  /\ ops < MaxOps
  /\ ops' = ops + 1
  /\ wall' = wall + tick
  /\ checkpoints' = IF ok THEN put(checkpoints, threadId, ops + 1, state, wall + tick)
                    ELSE checkpoints
  /\ UNCHANGED <<threadId, state, disk, lastGet, lastUndo>>
  /\ UNCHANGED <<gwVars, prVars, caVars, grVars, obVars, xtVars>>

\* getTuple({configurable: {thread_id, checkpoint_id?}}).
GetTuple(thread, id) ==
  /\ ops < MaxOps
  /\ ops' = ops + 1
  /\ \E i \in 0..MaxOps :
       /\ i \in Rows(checkpoints, thread, id)
       /\ lastGet' = [at |-> ops + 1, thread |-> thread, id |-> id,
                      found |-> getTuple(checkpoints, i).found, row |-> i,
                      values |-> getTuple(checkpoints, i).values]
  /\ UNCHANGED <<checkpoints, wall, threadId, state, disk, lastUndo>>
  /\ UNCHANGED <<gwVars, prVars, caVars, grVars, obVars, xtVars>>

\* The /undo command of the terminal UI: undoLastChange(filePath) with the
\* store set by setCheckpointStore. A success writes the restored content.
Undo(filePath, writeOk) ==
  /\ ops < MaxOps
  /\ ops' = ops + 1
  /\ \E i \in 0..MaxOps :
       /\ i \in Rows(checkpoints, "default", NoCheckpointId)
       /\ \E r \in {undoLastChange(getTuple(checkpoints, i), filePath, writeOk)} :
            /\ lastUndo' = r
            /\ disk' = IF r.success THEN [disk EXCEPT ![r.path] = r.restored] ELSE disk
  /\ UNCHANGED <<checkpoints, wall, threadId, state, lastGet>>
  /\ UNCHANGED <<gwVars, prVars, caVars, grVars, obVars, xtVars>>

InitStore == GwIdle /\ PrIdle /\ CaIdle /\ GrIdle /\ StInit /\ ObIdle /\ XtIdle

NextStore ==
  \/ Invoke
  \/ \E path \in Paths, content \in Contents, ok \in BOOLEAN : WriteFile(path, content, ok)
  \/ \E tick \in {0, 1}, ok \in BOOLEAN : Put(tick, ok)
  \/ \E thread \in Threads, id \in 0..MaxOps : GetTuple(thread, id)
  \/ \E filePath \in Paths \cup {NoPath}, writeOk \in BOOLEAN : Undo(filePath, writeOk)

SpecStore == InitStore /\ [][NextStore]_vars

(***************************************************************************)
(* PART 6. The output buffers of the server sessions (tui.tsx:             *)
(* startServerSession onData, appendServerOutput, stopServerSession).      *)
(*                                                                         *)
(* A string is a sequence of pieces [chunk, from, to]: the characters from *)
(* to to of the k-th chunk the session was handed. A chunk is what         *)
(* sanitizeCommandChunk leaves of the data of the PTY (its length) and     *)
(* whether the data held a screen-clear sequence.                          *)
(***************************************************************************)
MAX_COMMAND_OUTPUT_LENGTH == 8000
NoticeLength == 30        \* '\n[Session terminated by user]\n'.length

MaxChunks == 3            \* chunks handed to the sessions in one behaviour

ServerIds == {1, 2}
\* Lengths of a sanitized chunk: nothing left, a few lines, a large frame.
ChunkLengths == {0, 3000, 5000, 9000}

RECURSIVE StrLen(_)
StrLen(str) ==
  IF str = <<>> THEN 0
  ELSE Head(str).to - Head(str).from + 1 + StrLen(Tail(str))

\* str + chunk, for the k-th chunk of the session, of len characters.
Concat(str, k, len) ==
  IF len = 0 THEN str ELSE Append(str, [chunk |-> k, from |-> 1, to |-> len])

\* str.slice(d) for 0 <= d <= str.length: the string without its first d
\* characters.
RECURSIVE SliceFrom(_, _)
SliceFrom(str, d) ==
  IF d = 0 \/ str = <<>> THEN str
  ELSE LET n == Head(str).to - Head(str).from + 1
       IN IF d >= n THEN SliceFrom(Tail(str), d - n)
          ELSE <<[Head(str) EXCEPT !.from = @ + d]>> \o Tail(str)

\* str.slice(-n): the last n characters, the whole string when it is shorter.
SliceKeep(str, n) ==
  IF StrLen(str) <= n THEN str ELSE SliceFrom(str, StrLen(str) - n)

\* startServerSession, onData: the updater handed to updateServerSession.
nextOutput(output, k, len, clear) ==
  IF clear /\ len > 0 THEN Concat(<<>>, k, len)
  ELSE IF len > 0 THEN SliceKeep(Concat(output, k, len), MAX_COMMAND_OUTPUT_LENGTH)
  ELSE output

ObInit ==
  /\ serverOutput = [id \in ServerIds |-> <<>>]
  /\ received = [id \in ServerIds |-> <<>>]

Chunks == Len(received[1]) + Len(received[2])

\* ptyProcess.onData of the server session id: a chunk that sanitizes to len
\* characters, with or without a clear sequence.
OnData(id, len, clear) ==
  /\ Chunks < MaxChunks
  /\ received' = [received EXCEPT ![id] = Append(@, len)]
  /\ serverOutput' = [serverOutput EXCEPT
                         ![id] = nextOutput(@, Len(received[id]) + 1, len, clear)]
  /\ UNCHANGED <<gwVars, prVars, caVars, grVars, stVars, xtVars>>

\* stopServerSession: appendServerOutput(target, the notice).
StopNotice(id) ==
  /\ Chunks < MaxChunks
  /\ received' = [received EXCEPT ![id] = Append(@, NoticeLength)]
  /\ serverOutput' = [serverOutput EXCEPT
                         ![id] = SliceKeep(Concat(@, Len(received[id]) + 1, NoticeLength),
                                           MAX_COMMAND_OUTPUT_LENGTH)]
  /\ UNCHANGED <<gwVars, prVars, caVars, grVars, stVars, xtVars>>

InitBuffers == GwIdle /\ PrIdle /\ CaIdle /\ GrIdle /\ StIdle /\ ObInit /\ XtIdle

NextBuffers ==
  \/ \E id \in ServerIds, len \in ChunkLengths, clear \in BOOLEAN : OnData(id, len, clear)
  \/ \E id \in ServerIds : StopNotice(id)

SpecBuffers == InitBuffers /\ [][NextBuffers]_vars

(***************************************************************************)
(* PART 7. The history of one turn (agent_graph.ts: runAgentGraph's input, *)
(* callLLM with callAnthropic / callOpenAI behind it, formatResults).      *)
(*                                                                         *)
(* `messages` is the channel messages; the messages are those of PART 2.   *)
(* The n-th model response carries the tool use n (or only text, and the   *)
(* turn ends); formatResults appends the message of its result.            *)
(***************************************************************************)
SummaryLimit == 50        \* [...historicalSummaries, ...timestamped].slice(-50)
ContextText == 0          \* the text of the synthesized '[Context] ...' message

MaxIterations == 30       \* model responses of one turn
MaxBare == 1              \* responses that hold only a tool-use block

\* What getContextSummary reads of the state besides historicalSummaries: the
\* sizes of openFiles, recentChanges, recentCommands and workingSet.
TrackingOf(files, changes, commands, focus) ==
  [openFiles |-> files, recentChanges |-> changes, recentCommands |-> commands,
   workingSet |-> focus]
Tracking == {TrackingOf(0, 0, 0, 0), TrackingOf(0, 0, 0, 1), TrackingOf(1, 0, 0, 0),
             TrackingOf(1, 1, 1, 1)}

\* getContextSummary: '' (here <<>>) or '[Context] ' followed by one part for
\* each non-empty source.
getContextSummary(st, historical) ==
  IF st.openFiles = 0 /\ st.recentChanges = 0 /\ st.recentCommands = 0
       /\ historical = <<>>
  THEN <<>>
  ELSE <<"[Context]">>
         \o (IF st.openFiles > 0 THEN <<"Working with files">> ELSE <<>>)
         \o (IF st.recentChanges > 0 THEN <<"Recent changes">> ELSE <<>>)
         \o (IF st.recentCommands > 0 THEN <<"Recent commands">> ELSE <<>>)
         \o (IF st.workingSet > 0 THEN <<"Focus">> ELSE <<>>)
         \o (IF historical # <<>> THEN <<"Earlier work">> ELSE <<>>)

\* callLLM: the window handed to the provider.
MessagesToSend(contextSummary, prunedMessages) ==
  IF contextSummary # <<>>
  THEN <<TextMsg("user", ContextText, SmallChars)>> \o prunedMessages
  ELSE prunedMessages

\* The assistant message built from the n-th response.
ResponseKinds == {"tools", "bare", "final"}
AssistantOf(kind, n) ==
  BlockMsg("assistant",
           (IF kind # "bare" THEN <<TextBlock(n + 1, SmallChars)>> ELSE <<>>)
             \o (IF kind # "final" THEN <<ToolUse(n, SmallChars)>> ELSE <<>>))

\* callAnthropic / callOpenAI: the archived summaries get one timestamp and the
\* buffer keeps its last 50 entries.
AddSummaries(summaries, archived, timestamp) ==
  IF archived # <<>>
  THEN SliceLast(summaries \o [i \in 1..Len(archived) |->
                                 [timestamp |-> timestamp, summary |-> archived[i]]],
                 SummaryLimit)
  ELSE summaries

\* Mutant: the assistant message is appended to the window that was sent.
UpdatedMessagesMutSent(sent, prunedBeforeAdd, assistantMessage) ==
  Append(sent, assistantMessage)

\* callAnthropic / callOpenAI: [...prunedBeforeAdd, assistantMessage].
UpdatedMessages(sent, prunedBeforeAdd, assistantMessage) ==
  Append(prunedBeforeAdd, assistantMessage)

NoTurn == [pc |-> "callLLM", n |-> 0, bare |-> 0, before |-> <<>>,
           summariesBefore |-> <<>>, window |-> NoPruneOut,
           context |-> <<>>, sent |-> <<>>, tracking |-> <<>>]

\* runAgentGraph: the input replaces the channel messages by the query.
TuInit ==
  /\ \E chars \in {SmallChars, HugeChars} : messages = <<TextMsg("user", 1, chars)>>
  /\ maxMessages = CeilingProvider
  /\ maxTokens = MAX_PROMPT_TOKEN_BUDGET
  /\ pruneOut = NoPruneOut
  /\ prunePc = "input"
  /\ historicalSummaries = <<>>
  /\ turn = NoTurn

\* Node callLLM. The window is pruneMessages(state.messages, 50), which works
\* on the message objects of the channel; the provider function prunes again
\* with 49 before it appends the assistant message. A provider that fails
\* throws, and the turn ends without a channel update.
TurnCallLLM(kind, st, ok) ==
  /\ turn.pc = "callLLM"
  /\ turn.n < MaxIterations
  /\ kind = "bare" => turn.bare < MaxBare
  /\ \E window \in {pruneMessages(messages, CeilingLLM, maxTokens)} :
     \E context \in {getContextSummary(st, SliceLast(historicalSummaries, 5))} :
     \E out \in {pruneMessages(window.input, maxMessages, maxTokens)} :
       \E sent \in {MessagesToSend(context, window.prunedMessages)} :
       /\ turn' = [pc |-> IF ~ok THEN "failed"
                          ELSE IF kind = "final" THEN "end" ELSE "formatResults",
                   n |-> turn.n + 1,
                   bare |-> turn.bare + (IF kind = "bare" THEN 1 ELSE 0),
                   before |-> messages,
                   summariesBefore |-> historicalSummaries,
                   window |-> window,
                   context |-> context,
                   sent |-> sent,
                   tracking |-> st]
       /\ IF ok
          THEN /\ messages' = UpdatedMessages(sent, out.prunedMessages,
                                              AssistantOf(kind, turn.n + 1))
               /\ historicalSummaries' =
                    AddSummaries(historicalSummaries, out.archivedSummaries, turn.n + 1)
               /\ pruneOut' = out
          ELSE /\ messages' = window.input
               /\ UNCHANGED <<historicalSummaries, pruneOut>>
  /\ UNCHANGED <<maxMessages, maxTokens, prunePc>>
  /\ UNCHANGED <<gwVars, caVars, grVars, stVars, obVars, tkVars, cgVars, mkVars>>

\* Node formatResults (executeTools before it leaves the messages alone): one
\* user message with the tool results of the response is appended.
TurnFormatResults ==
  /\ turn.pc = "formatResults"
  /\ messages' = Append(messages, BlockMsg("user", <<ToolResult(turn.n, SmallChars)>>))
  /\ turn' = [turn EXCEPT !.pc = "callLLM"]
  /\ UNCHANGED <<maxMessages, maxTokens, pruneOut, prunePc, historicalSummaries>>
  /\ UNCHANGED <<gwVars, caVars, grVars, stVars, obVars, tkVars, cgVars, mkVars>>

InitTurn ==
  GwIdle /\ TuInit /\ CaIdle /\ GrIdle /\ StIdle /\ ObIdle /\ TkIdle /\ CgIdle /\ MkIdle

NextTurn ==
  \/ \E kind \in ResponseKinds, st \in Tracking, ok \in BOOLEAN : TurnCallLLM(kind, st, ok)
  \/ TurnFormatResults

SpecTurn == InitTurn /\ [][NextTurn]_vars

(***************************************************************************)
(* PART 8. The context tracking of executeTools (agent_graph.ts): the      *)
(* working copies of openFiles, recentChanges, recentReads and             *)
(* recentCommands, what each tool use does to them, and the slices that    *)
(* are returned. A cache entry is [path, content, previousVersions,        *)
(* lastRead]; a text is a sequence of pieces as in PART 6, the pieces 1, 2 *)
(* and 3 being stdout, the line break and stderr of a command result.      *)
(***************************************************************************)
CommandLimit == 10        \* recentCommands.slice(-10)
OutputLimit == 500        \* commandOutput.slice(0, 500)

MaxCalls == 2             \* executeTools calls of one behaviour
LongBatch == 21           \* most tool uses of one kind in a batch
TrackPaths == 1..(LongBatch + 1)

\* str.slice(0, n): the first n characters.
RECURSIVE SliceTo(_, _)
SliceTo(str, n) ==
  IF n <= 0 \/ str = <<>> THEN <<>>
  ELSE LET len == Head(str).to - Head(str).from + 1
       IN IF len <= n THEN <<Head(str)>> \o SliceTo(Tail(str), n - len)
          ELSE <<[Head(str) EXCEPT !.to = Head(str).from + n - 1]>>

\* stdout + (stderr ? '\n' + stderr : ''), for a result with stdout and stderr
\* of the given lengths.
CommandOutput(stdout, stderr) ==
  Concat(<<>>, 1, stdout)
    \o (IF stderr > 0 THEN Concat(Concat(<<>>, 2, 1), 3, stderr) ELSE <<>>)

\* A tool use with what its tool returns; ok is FALSE when the tool throws.
ReadUse(path, content) ==
  [name |-> "read_file", path |-> path, content |-> content, command |-> "",
   stdout |-> 0, stderr |-> 0, ok |-> TRUE]
WriteUse(path, content) ==
  [name |-> "write_file", path |-> path, content |-> content, command |-> "",
   stdout |-> 0, stderr |-> 0, ok |-> TRUE]
CommandUse(command, stdout, stderr) ==
  [name |-> "execute_command", path |-> 0, content |-> "", command |-> command,
   stdout |-> stdout, stderr |-> stderr, ok |-> TRUE]

\* read_file that returned a string: the content is replaced, previousVersions
\* is kept, a path without an entry gets one; then the size limit is enforced.
TrackRead(cache, path, content, t) ==
  LET i == IndexOf(cache, path)
  IN evictOldCacheEntries(
       IF i # 0
       THEN [cache EXCEPT ![i] =
               [path |-> path, content |-> content, lastRead |-> t,
                previousVersions |-> cache[i].previousVersions]]
       ELSE Append(cache, [path |-> path, content |-> content, lastRead |-> t,
                           previousVersions |-> <<>>]),
       CacheLimit)

\* The contents write_file overwrote in the entry of the path since the entry
\* was made (history).
Overwritten(w, use) ==
  IF use.name = "execute_command" THEN w.overwritten
  ELSE IF IndexOf(w.openFiles, use.path) = 0
  THEN [w.overwritten EXCEPT ![use.path] = <<>>]
  ELSE IF use.name = "write_file"
  THEN [w.overwritten EXCEPT
          ![use.path] = Append(@, w.openFiles[IndexOf(w.openFiles, use.path)].content)]
  ELSE w.overwritten

\* `commandOutput ? commandOutput.slice(0, 500) : undefined`.
TrackedOutput(commandOutput) ==
  SliceTo(commandOutput, OutputLimit)

\* One pass of the loop of executeTools over the working copies w, after the
\* tool returned (a tool that throws is caught before anything is tracked).
TrackUse(w, use) ==
  IF ~use.ok THEN w
  ELSE IF use.name = "read_file"
  THEN \* recentReads.push, openFiles.set, evictOldCacheEntries
       LET after == TrackRead(w.openFiles, use.path, use.content, w.now)
       IN [w EXCEPT !.recentReads = Append(@, [path |-> use.path, timestamp |-> w.now]),
                    !.openFiles = after,
                    !.overwritten = Overwritten(w, use),
                    !.evicted = @ \o Removed(w.openFiles, after)]
  ELSE IF use.name = "write_file"
  THEN \* recentChanges.push, previousVersions.push, evictOldCacheEntries
       LET after == TrackWrite(w.openFiles, use.path, use.content, w.now)
       IN [w EXCEPT !.recentChanges = Append(@, [path |-> use.path, timestamp |-> w.now]),
                    !.openFiles = after,
                    !.overwritten = Overwritten(w, use),
                    !.evicted = @ \o Removed(w.openFiles, after)]
  ELSE \* execute_command / execute_server_command: `if (command)`
       IF use.command = "" THEN w
       ELSE [w EXCEPT !.recentCommands =
                         Append(@, [command |-> use.command,
                                    output |-> TrackedOutput(
                                                 CommandOutput(use.stdout, use.stderr)),
                                    stdout |-> use.stdout, stderr |-> use.stderr,
                                    timestamp |-> w.now])]

\* The loop over state.toolUses (the test on `now`, which no pass changes, makes
\* each pass be evaluated before the next one starts).
RECURSIVE TrackAll(_, _)
TrackAll(w, uses) ==
  IF uses = <<>> THEN w
  ELSE LET next == TrackUse(w, Head(uses))
       IN IF next.now = w.now THEN TrackAll(next, Tail(uses)) ELSE w

\* Mutant: the lists are returned whole.
ReturnedMutWhole(list, limit) == list

\* The return of executeTools: list.slice(-limit).
Returned(list, limit) == SliceLast(list, limit)

(***************************************************************************)
(* The batches of tool uses of a model response.                           *)
(***************************************************************************)
\* k reads of the files 2, 3, ...
ManyReads(k) == [i \in 1..k |-> ReadUse(i + 1, "A")]
\* k writes of the file 1, the contents alternating.
ManyWrites(k) == [i \in 1..k |-> WriteUse(1, IF i % 2 = 1 THEN "A" ELSE "B")]
\* k commands with a short output.
ManyCommands(k) == [i \in 1..k |-> CommandUse("c", SmallChars, 0)]

BaseUses ==
  { ReadUse(1, ""), ReadUse(1, "A"), WriteUse(1, ""), WriteUse(1, "B"), WriteUse(2, "A"),
    [WriteUse(1, "A") EXCEPT !.ok = FALSE],
    CommandUse("", SmallChars, 0), CommandUse("c", 0, 0),
    CommandUse("c", OutputLimit + 100, 0), CommandUse("c", OutputLimit - 2, SmallChars) }

TrackBatches ==
  {ManyReads(CacheLimit), ManyReads(LongBatch), ManyWrites(VersionLimit + 1),
   ManyWrites(LongBatch), ManyCommands(CommandLimit + 1),
   ManyReads(LongBatch) \o ManyWrites(LongBatch) \o ManyCommands(CommandLimit + 1)}
    \cup {<<u>> : u \in BaseUses}
    \cup {<<u, v>> : u \in BaseUses, v \in BaseUses}

NoTracked == [openFiles |-> <<>>, recentChanges |-> <<>>, recentReads |-> <<>>,
              recentCommands |-> <<>>]

TkInit ==
  /\ tracked = NoTracked
  /\ working = <<>>
  /\ trackLog = [calls |-> 0, reads |-> <<>>, changes |-> <<>>, commands |-> <<>>,
                 overwritten |-> [p \in TrackPaths |-> <<>>], evicted |-> <<>>,
                 undo |-> NoUndo]

\* Node executeTools on the tool uses of one response: the working copies are
\* made, Date.now() is read once, every tool use is tracked in order and the
\* slices are returned into the channels.
TrackExecuteTools(uses) ==
  /\ trackLog.calls < MaxCalls
  /\ \E w \in {TrackAll([openFiles |-> tracked.openFiles,
                         recentChanges |-> tracked.recentChanges,
                         recentReads |-> tracked.recentReads,
                         recentCommands |-> tracked.recentCommands,
                         now |-> trackLog.calls + 1,
                         overwritten |-> trackLog.overwritten,
                         evicted |-> <<>>], uses)} :
       /\ working' = w
       /\ tracked' = [openFiles |-> w.openFiles,
                      recentChanges |-> Returned(w.recentChanges, ChangeLimit),
                      recentReads |-> Returned(w.recentReads, ChangeLimit),
                      recentCommands |-> Returned(w.recentCommands, CommandLimit)]
       /\ trackLog' =
            [trackLog EXCEPT
               !.calls = @ + 1,
               !.reads = @ \o SubSeq(w.recentReads, Len(tracked.recentReads) + 1,
                                     Len(w.recentReads)),
               !.changes = @ \o SubSeq(w.recentChanges, Len(tracked.recentChanges) + 1,
                                       Len(w.recentChanges)),
               !.commands = @ \o SubSeq(w.recentCommands, Len(tracked.recentCommands) + 1,
                                        Len(w.recentCommands)),
               !.overwritten = w.overwritten,
               !.evicted = w.evicted]
  /\ UNCHANGED <<gwVars, prVars, caVars, grVars, stVars, obVars, tuVars, cgVars, mkVars>>

\* The checkpoint of the channels as getTuple hands it back: put stores
\* serializeCheckpoint of them, getTuple parses and deserializes the row.
TrackedTuple ==
  [found |-> TRUE, row |-> 1,
   values |-> deserializeCheckpoint(JSONParse(JSONStringify(serializeCheckpoint(
                [openFiles |-> Chan(tracked.openFiles),
                 recentChanges |-> Chan([i \in 1..Len(tracked.recentChanges) |->
                                           tracked.recentChanges[i].path])]))))]

\* /undo after the channels were saved under the thread undoLastChange reads.
TrackUndo(filePath, writeOk) ==
  /\ trackLog.calls > 0
  /\ trackLog' = [trackLog EXCEPT !.undo = undoLastChange(TrackedTuple, filePath, writeOk)]
  /\ UNCHANGED <<tracked, working>>
  /\ UNCHANGED <<gwVars, prVars, caVars, grVars, stVars, obVars, tuVars, cgVars, mkVars>>

InitTrack ==
  GwIdle /\ PrIdle /\ CaIdle /\ GrIdle /\ StIdle /\ ObIdle /\ TuIdle /\ TkInit
    /\ CgIdle /\ MkIdle

NextTrack ==
  \/ \E uses \in TrackBatches : TrackExecuteTools(uses)
  \/ \E filePath \in {NoPath, 1, 2}, writeOk \in BOOLEAN : TrackUndo(filePath, writeOk)

SpecTrack == InitTrack /\ [][NextTrack]_vars

(***************************************************************************)
(* PART 9. The continue gate (part_001: waitForContinue,                   *)
(* resolvePendingContinue) with the graph runs that arm it (agent_graph.ts *)
(* shouldContinue) and the terminal UI that answers it (tui.tsx: runQuery, *)
(* customOutput.write, useInput).                                          *)
(***************************************************************************)
MaxGates == 3             \* waitForContinue calls of one behaviour
Runs == {1, 2}            \* runQuery calls that reach runAgentGraph

\* resolvePendingContinue(shouldContinue): the promise held in
\* pendingContinueResolve is resolved and both globals are set to null;
\* nothing happens when none is held (<<>>).
ResolvePendingContinue(held, promises, answer) ==
  IF held = <<>> THEN promises
  ELSE [promises EXCEPT ![held[1]] =
          [@ EXCEPT !.settles = @ + 1,
                    !.state = IF @ = "pending"
                              THEN (IF answer THEN "continue" ELSE "stop") ELSE @]]

\* waitForContinue: the globals take the functions of the new promise k.
Arm(held, k) == <<k>>

CgInit ==
  /\ pendingContinue = <<>>
  /\ waiters = <<>>
  /\ continueUi = [prompt |-> FALSE, isProcessing |-> FALSE,
                   pc |-> [r \in Runs |-> "idle"], answered |-> <<>>,
                   shuttingDown |-> FALSE]

\* runQuery(query): returns at once while isProcessing; the prompt blocks all
\* other input. Otherwise the turn starts and runAgentGraph is called.
RunQuery(r) ==
  /\ continueUi.pc[r] = "idle"
  /\ ~continueUi.isProcessing
  /\ ~continueUi.prompt
  /\ continueUi' = [continueUi EXCEPT !.isProcessing = TRUE, !.pc[r] = "running"]
  /\ UNCHANGED <<pendingContinue, waiters>>
  /\ UNCHANGED <<gwVars, prVars, caVars, grVars, stVars, obVars, tuVars, tkVars, mkVars>>

\* shouldContinue of run r at the iteration limit: output.write of the marker
\* (the UI shows the prompt and sets isProcessing to false), then
\* `await waitForContinue()`.
ReachLimit(r) ==
  /\ continueUi.pc[r] = "running"
  /\ Len(waiters) < MaxGates
  /\ waiters' = Append(waiters, [run |-> r, state |-> "pending", settles |-> 0])
  /\ pendingContinue' = Arm(pendingContinue, Len(waiters) + 1)
  /\ continueUi' = [continueUi EXCEPT !.prompt = TRUE, !.isProcessing = FALSE,
                                      !.pc[r] = "gate"]
  /\ UNCHANGED <<gwVars, prVars, caVars, grVars, stVars, obVars, tuVars, tkVars, mkVars>>

\* output.write of a text of run r that contains the marker while no gate is
\* armed by it (the marker inside a streamed model text): the UI shows the
\* prompt all the same.
MarkerText(r) ==
  /\ continueUi.pc[r] = "running"
  /\ continueUi' = [continueUi EXCEPT !.prompt = TRUE, !.isProcessing = FALSE]
  /\ UNCHANGED <<pendingContinue, waiters>>
  /\ UNCHANGED <<gwVars, prVars, caVars, grVars, stVars, obVars, tuVars, tkVars, mkVars>>

\* useInput with the prompt shown: Return on a selection, or Escape. The prompt
\* is closed and resolvePendingContinue is called; the run whose promise was
\* resolved goes on or ends.
AnswerPrompt(answer) ==
  /\ continueUi.prompt
  /\ waiters' = ResolvePendingContinue(pendingContinue, waiters, answer)
  /\ pendingContinue' = <<>>
  /\ continueUi' =
       [continueUi EXCEPT
          !.prompt = FALSE,
          !.answered = pendingContinue,
          !.pc = [r \in Runs |->
                    IF pendingContinue # <<>> /\ waiters[pendingContinue[1]].run = r
                         /\ waiters[pendingContinue[1]].state = "pending"
                    THEN (IF answer THEN "running" ELSE "done")
                    ELSE @[r]]]
  /\ UNCHANGED <<gwVars, prVars, caVars, grVars, stVars, obVars, tuVars, tkVars, mkVars>>

\* runAgentGraph of run r returns: runQuery sets isProcessing to false.
RunEnds(r) ==
  /\ continueUi.pc[r] = "running"
  /\ continueUi' = [continueUi EXCEPT !.isProcessing = FALSE, !.pc[r] = "done"]
  /\ UNCHANGED <<pendingContinue, waiters>>
  /\ UNCHANGED <<gwVars, prVars, caVars, grVars, stVars, obVars, tuVars, tkVars, mkVars>>

\* gracefulShutdown (SIGINT) with no command prompt, no attached session and
\* no server: a second request returns at once; the first sets
\* shuttingDownRef and isProcessing and leaves the continue prompt and the
\* globals of the gate as they are (the exit follows 250 ms later).
GateShutdown ==
  /\ ~continueUi.shuttingDown
  /\ continueUi' = [continueUi EXCEPT !.shuttingDown = TRUE, !.isProcessing = FALSE]
  /\ UNCHANGED <<pendingContinue, waiters>>
  /\ UNCHANGED <<gwVars, prVars, caVars, grVars, stVars, obVars, tuVars, tkVars, mkVars>>

InitContinue ==
  GwIdle /\ PrIdle /\ CaIdle /\ GrIdle /\ StIdle /\ ObIdle /\ TuIdle /\ TkIdle
    /\ CgInit /\ MkIdle

NextContinue ==
  \/ \E r \in Runs : RunQuery(r)
  \/ \E r \in Runs : ReachLimit(r)
  \/ \E r \in Runs : MarkerText(r)
  \/ \E answer \in BOOLEAN : AnswerPrompt(answer)
  \/ \E r \in Runs : RunEnds(r)
  \/ GateShutdown

SpecContinue == InitContinue /\ [][NextContinue]_vars

(***************************************************************************)
(* PART 10. The approval marker: executeCommandTool builds it (part_001),  *)
(* executeTools writes it to the output (agent_graph.ts), customOutput     *)
(* .write parses it into the prompt and startCommandSession runs what the  *)
(* prompt holds (tui.tsx).                                                 *)
(*                                                                         *)
(* A string is a sequence of pieces.  A piece is one character (":", " ",  *)
(* a line break, a digit) or a run of letters that only occurs whole       *)
(* ("x", "CWD", "TIMEOUT", the marker word).  An optional value is <<>>    *)
(* for undefined and <<v>> for the value v.                                *)
(***************************************************************************)
MarkerWord == <<"COMMAND_APPROVAL_NEEDED", ":">>
CwdTag == <<":", "CWD", ":">>
TimeoutTag == <<":", "TIMEOUT", ":">>
LineBreak == "\n"
Digits == <<"0", "1", "2", "3", "4", "5", "6", "7", "8", "9">>

\* `${n}` of a non-negative integer: its decimal digits.
RECURSIVE NumberText(_)
NumberText(n) ==
  IF n < 10 THEN <<Digits[n + 1]>>
  ELSE Append(NumberText(n \div 10), Digits[(n % 10) + 1])

\* parseInt(digits, 10) of a string of decimal digits.
RECURSIVE parseInt(_)
parseInt(str) ==
  IF str = <<>> THEN 0
  ELSE 10 * parseInt(SubSeq(str, 1, Len(str) - 1))
       + (CHOOSE d \in 0..9 : Digits[d + 1] = str[Len(str)])

\* The positions of str where sub starts.
Occurrences(str, sub) ==
  {i \in 1..(Len(str) - Len(sub) + 1) : SubSeq(str, i, i + Len(sub) - 1) = sub}

Least(S) == CHOOSE i \in S : \A j \in S : i <= j

\* str.split(sep)[0] and str.split(sep)[1] for a str that includes sep (the
\* second is only taken after text.includes(sep)).
SplitFirst(str, sep) ==
  IF Occurrences(str, sep) = {} THEN str
  ELSE SubSeq(str, 1, Least(Occurrences(str, sep)) - 1)

SplitSecond(str, sep) ==
  LET from == Least(Occurrences(str, sep)) + Len(sep)
      later == {i \in Occurrences(str, sep) : i >= from}
  IN SubSeq(str, from, IF later = {} THEN Len(str) ELSE Least(later) - 1)

\* String.prototype.trim: white space is removed from both ends.
trim(str) ==
  LET black == {i \in 1..Len(str) : str[i] \notin {" ", LineBreak}}
  IN IF black = {} THEN <<>>
     ELSE SubSeq(str, Least(black), CHOOSE i \in black : \A j \in black : j <= i)

\* parts.match(/:CWD:(.+?)(?::TIMEOUT:|$)/): the leftmost ":CWD:" that is
\* followed by at least one character, and from there the shortest run
\* without a line break that ends before ":TIMEOUT:" or at the end of the
\* string.  <<>> for no match, else <<group 1>>.
CwdMatch(parts) ==
  LET ends(g) == {e \in g..Len(parts) :
                     /\ \A j \in g..e : parts[j] # LineBreak
                     /\ \/ e = Len(parts)
                        \/ (e + 1) \in Occurrences(parts, TimeoutTag)}
      starts == {i \in Occurrences(parts, CwdTag) : ends(i + Len(CwdTag)) # {}}
  IN IF starts = {} THEN <<>>
     ELSE LET g == Least(starts) + Len(CwdTag)
          IN <<SubSeq(parts, g, Least(ends(g)))>>

\* parts.match(/:TIMEOUT:(\d+)/): the leftmost ":TIMEOUT:" that is followed
\* by a digit, and all the digits that follow it.
TimeoutMatch(parts) ==
  LET isDigit(i) == i <= Len(parts) /\ \E d \in 1..10 : Digits[d] = parts[i]
      starts == {i \in Occurrences(parts, TimeoutTag) : isDigit(i + Len(TimeoutTag))}
  IN IF starts = {} THEN <<>>
     ELSE LET g == Least(starts) + Len(TimeoutTag)
              stop == {e \in g..Len(parts) : ~isDigit(e + 1)}
          IN <<SubSeq(parts, g, Least(stop))>>

\* executeCommandTool(command, cwd, {timeout}): the stdout of its result.
\* An empty cwd and a timeout of 0 are falsy and leave no trace.
approvalMarker(command, cwd, timeout) ==
  MarkerWord \o command
    \o (IF cwd # <<>> /\ cwd[1] # <<>> THEN CwdTag \o cwd[1] ELSE <<>>)
    \o (IF timeout # <<>> /\ timeout[1] # 0
        THEN TimeoutTag \o NumberText(timeout[1]) ELSE <<>>)

\* customOutput.write(text) for a text that includes the marker word: the
\* command, cwd and timeout it puts into the prompt.
ParseMarker(text) ==
  LET parts == trim(SplitSecond(text, MarkerWord))
      cwdMatch == CwdMatch(parts)
      timeoutMatch == TimeoutMatch(parts)
      command == IF cwdMatch # <<>> THEN SplitFirst(parts, CwdTag)
                 ELSE IF timeoutMatch # <<>> THEN SplitFirst(parts, TimeoutTag)
                 ELSE parts
  IN [command |-> trim(command),
      cwd |-> cwdMatch,
      timeout |-> IF timeoutMatch = <<>> THEN <<>>
                  ELSE <<parseInt(timeoutMatch[1])>>]

\* startCommandSession: the timeout handed to executeCommandWithPTY.  A
\* value above 1000 is taken for milliseconds (Math.round(timeout / 1000)),
\* a missing one becomes 900.
normalizedTimeout(timeout) ==
  IF timeout # <<>>
  THEN IF timeout[1] > 1000 THEN (timeout[1] + 500) \div 1000 ELSE timeout[1]
  ELSE 900

\* The tool inputs of the model: commands with and without the two tags,
\* with white space at an end, with a tag at the very end; directories
\* undefined, empty, plain and with a tag inside; timeouts undefined, 0,
\* in seconds, and above 1000.
MarkCommands ==
  { <<"x">>, <<"x", " ", "x">>, <<" ", "x">>,
    <<"x", ":", "CWD", ":", "x">>, <<"x", ":", "CWD", ":">>,
    <<"x", ":", "TIMEOUT", ":", "5">>, <<"x", ":", "TIMEOUT", ":", "x">> }
MarkCwds ==
  { <<>>, << <<>> >>, << <<"x">> >>, << <<"x", ":", "TIMEOUT", ":", "x">> >> }
MarkTimeouts == { <<>>, <<0>>, <<5>>, <<30>>, <<2000>> }

NoMarked == [pc |-> "idle", input |-> <<>>, text |-> <<>>, pending |-> <<>>,
             executed |-> <<>>]

MkInit == marked = NoMarked

\* executeTools on an execute_command tool use: executeTool returns the
\* marker, output.write hands the line to customOutput.write, which parses
\* it and sets the prompt; the graph then waits for the completion.
MarkRequest(command, cwd, timeout) ==
  /\ marked.pc = "idle"
  /\ \E text \in {Append(approvalMarker(command, cwd, timeout), LineBreak)} :
       marked' = [pc |-> "prompt",
                  input |-> <<[command |-> command, cwd |-> cwd, timeout |-> timeout]>>,
                  text |-> text,
                  pending |-> <<ParseMarker(text)>>,
                  executed |-> <<>>]
  /\ UNCHANGED <<gwVars, prVars, caVars, grVars, stVars, obVars, tuVars, tkVars, cgVars>>

\* The prompt is approved: startCommandSession(pending) runs the command
\* of the prompt in its cwd (the process's own when undefined) with the
\* normalised timeout.
MarkApprove ==
  /\ marked.pc = "prompt"
  /\ marked' = [marked EXCEPT
       !.pc = "running",
       !.executed = <<[command |-> marked.pending[1].command,
                       cwd |-> marked.pending[1].cwd,
                       timeout |-> normalizedTimeout(marked.pending[1].timeout)]>>]
  /\ UNCHANGED <<gwVars, prVars, caVars, grVars, stVars, obVars, tuVars, tkVars, cgVars>>

\* The prompt is denied, or the command that ran has ended: the next tool
\* use can follow.
MarkDone ==
  /\ marked.pc \in {"prompt", "running"}
  /\ marked' = NoMarked
  /\ UNCHANGED <<gwVars, prVars, caVars, grVars, stVars, obVars, tuVars, tkVars, cgVars>>

InitMarker ==
  /\ MkInit
  /\ GwIdle /\ PrIdle /\ CaIdle /\ GrIdle /\ StIdle /\ ObIdle
  /\ TuIdle /\ TkIdle /\ CgIdle

NextMarker ==
  \/ \E command \in MarkCommands, cwd \in MarkCwds, timeout \in MarkTimeouts :
       MarkRequest(command, cwd, timeout)
  \/ MarkApprove
  \/ MarkDone

SpecMarker == InitMarker /\ [][NextMarker]_vars

(***************************************************************************)
(* Claims about the approval gateway, checked under SpecGateway.           *)
(***************************************************************************)

\* C1: a process exists only for a command tool call the user approved: every
\* session belongs to a call whose decision is "approve", and no call has two
\* sessions; dispatching the tool makes no session.
C1_SpawnOnlyAfterApprove ==
  /\ \A i \in 1..Len(sessions) : calls[sessions[i].call].decision = "approve"
  /\ \A i, j \in 1..Len(sessions) : sessions[i].call = sessions[j].call => i = j

\* C1 witness: a registered call was approved and its process is running.
C1_Witness ==
  \E i \in 1..Len(sessions) :
    /\ sessions[i].state = "running"
    /\ calls[sessions[i].call].slot # 0
    /\ calls[sessions[i].call].decision = "approve"

\* C2: every registered pending approval is released once the user has
\* rejected or dismissed it: its promise is no longer pending and its entry
\* has left the map. (Violated: with --verbose the prompt carries no usable
\* tool-use id, so nothing releases the approval.)
C2_ReleasedOnceDecided ==
  \A n \in 1..Len(calls) :
    (calls[n].slot # 0 /\ calls[n].decision \in {"reject", "dismiss"})
      => slots[calls[n].slot].state # "pending"

\* C3: a resolve/reject call for an id with no unreleased entry (never
\* registered, or already released) returns false and changes nothing, and no
\* promise is ever settled a second time.
C3_LateDeliveryIsNoOp ==
  /\ (gwLog.fn \in {"resolve", "reject"} /\ ~gwLog.had)
       => (~gwLog.ret /\ ~gwLog.changed)
  /\ \A p \in 1..Len(slots) : slots[p].nsettle <= 1

\* C3 witness: a resolve/reject call came for an id whose approval had been
\* registered and released before, and it returned false.
C3_Witness ==
  /\ gwLog.fn \in {"resolve", "reject"}
  /\ ~gwLog.had
  /\ ~gwLog.ret
  /\ \E n \in 1..Len(calls) :
       /\ calls[n].id = gwLog.id
       /\ calls[n].slot # 0
       /\ slots[calls[n].slot].state # "pending"

\* C4: registering under an id that has an unreleased entry, or under the
\* empty id, fails and leaves the maps and promises unchanged.
C4_DuplicateRegistrationFails ==
  (gwLog.fn = "wait" /\ (gwLog.had \/ gwLog.id = EmptyId))
    => (~gwLog.ret /\ ~gwLog.changed)

\* C4 witness: a registration was attempted under an id whose entry was still
\* unreleased, and it failed.
C4_Witness ==
  /\ gwLog.fn = "wait"
  /\ gwLog.had
  /\ ~gwLog.ret
  /\ \E n \in 1..Len(calls) :
       /\ calls[n].id = gwLog.id
       /\ calls[n].slot # 0
       /\ slots[calls[n].slot].state = "pending"

(***************************************************************************)
(* Claims about pruneMessages, checked under SpecPrune.                    *)
(***************************************************************************)
\* Every message with tool_result blocks directly follows a message that holds
\* the tool_use blocks with the same ids.
Adjacent(msgs) ==
  \A i \in 1..Len(msgs) :
    hasToolResults(msgs[i])
      => (i > 1 /\ ToolResultIds(msgs[i]) \subseteq ToolUseIds(msgs[i - 1]))

RECURSIVE TotalTokens(_)
TotalTokens(msgs) ==
  IF msgs = <<>> THEN 0
  ELSE estimateTokensFromMessage(Head(msgs)) + TotalTokens(Tail(msgs))

IsPlain(msgs) == \A i \in 1..Len(msgs) : msgs[i].str

\* C5: in the list pruneMessages returns (for an input that itself satisfies the
\* adjacency invariant), every message with a ToolResult block is directly
\* preceded by a retained message with the matching ToolUse block, the first
\* retained message included. (Violated: the length trim can cut between a
\* ToolUse message and its ToolResult message, and the repair pass starts at
\* the second retained message.)
C5_AdjacencyOfResult ==
  (prunePc = "done" /\ Adjacent(messages)) => Adjacent(pruneOut.prunedMessages)

\* C6: for a non-empty history the first element of the result is the input's
\* message[0], and the result is exactly [message[0]] when message[0] alone
\* exceeds the budget. (Violated: the length trim keeps the last maxMessages
\* entries, which drops message[0] when the scan kept maxMessages or more.)
C6_FirstMessageRetained ==
  (prunePc = "done" /\ messages # <<>>)
    => /\ pruneOut.kept # <<>>
       /\ pruneOut.kept[1] = 1
       /\ estimateTokensFromMessage(messages[1]) > maxTokens => pruneOut.kept = <<1>>

\* The ToolUse message at position p and its ToolResult message at p + 1 straddle
\* the boundary of the scan with ceiling 50: the result is the 49th newest message.
Straddles(msgs, p) ==
  /\ p >= 2
  /\ p + 1 = Len(msgs) - 48
  /\ hasToolUses(msgs[p])
  /\ hasToolResults(msgs[p + 1])
  /\ ToolResultIds(msgs[p + 1]) \subseteq ToolUseIds(msgs[p])

\* C7: when a ToolUse/ToolResult pair straddles the boundary, pruneMessages with
\* ceiling 50 returns 51 messages, among them message[0] and both messages of
\* the pair. (Violated: the result never has more than 50 messages.)
C7_StraddlingPairKept ==
  (prunePc = "done" /\ maxMessages = CeilingLLM)
    => \A p \in 1..Len(messages) :
         Straddles(messages, p)
           => /\ Len(pruneOut.prunedMessages) = 51
              /\ {1, p, p + 1} \subseteq Range(pruneOut.kept)

\* C8: for 60 plain text messages within the budget and ceiling 50 the result
\* is message[0] followed by the 49 newest messages in order, and the archive
\* holds exactly one summary for each of the other 10 messages.
C8_SixtyPlainMessages ==
  (/\ prunePc = "done"
   /\ maxMessages = CeilingLLM
   /\ Len(messages) = 60
   /\ IsPlain(messages)
   /\ TotalTokens(messages) <= maxTokens)
    => /\ pruneOut.kept = <<1>> \o [k \in 1..49 |-> 11 + k]
       /\ pruneOut.prunedMessages = [k \in 1..50 |-> messages[pruneOut.kept[k]]]
       /\ Len(pruneOut.archivedSummaries) = 10
       /\ \A j \in 2..11 :
            Cardinality({a \in 1..10 :
              pruneOut.archivedSummaries[a] = summarizeMessage(messages[j])}) = 1

\* C8 witness: pruneMessages has run on 60 plain messages with ceiling 50 and
\* archived ten summaries.
C8_Witness ==
  /\ prunePc = "done"
  /\ maxMessages = CeilingLLM
  /\ Len(messages) = 60
  /\ IsPlain(messages)
  /\ Len(pruneOut.prunedMessages) = 50
  /\ Len(pruneOut.archivedSummaries) = 10

(***************************************************************************)
(* Claims about the open-file cache, checked under SpecCache.              *)
(***************************************************************************)

\* C9: at the end of every read_file / write_file execution, and in the state
\* executeTools returns, the cache holds at most 15 entries.
C9_CacheAtMostFifteen ==
  /\ Len(batchFiles) <= CacheLimit
  /\ Len(openFiles) <= CacheLimit

\* C9 witness: a tool execution added a 16th entry and left the cache at 15.
C9_Witness ==
  /\ lastEvict.size = CacheLimit + 1
  /\ Len(batchFiles) = CacheLimit

\* C10: when adding a path makes the cache exceed 15 entries, exactly one entry
\* is removed; it is not the entry just added, no remaining entry has a smaller
\* lastRead, and the remaining entries with the same lastRead were all inserted
\* after it.
C10_EvictsOldestFirstInserted ==
  lastEvict.evicted # <<>>
    => /\ Len(lastEvict.evicted) = 1
       /\ lastEvict.evicted[1].path # lastEvict.path
       /\ \A i \in 1..Len(batchFiles) :
            /\ batchFiles[i].lastRead >= lastEvict.evicted[1].lastRead
            /\ batchFiles[i].lastRead = lastEvict.evicted[1].lastRead => i >= lastEvict.pos

\* C10 witness: a 16th path caused an eviction while another entry had the same
\* lastRead as the evicted one.
C10_Witness ==
  /\ lastEvict.evicted # <<>>
  /\ lastEvict.size = CacheLimit + 1
  /\ \E i \in 1..Len(batchFiles) :
       batchFiles[i].lastRead = lastEvict.evicted[1].lastRead

(***************************************************************************)
(* Claims about undoLastChange and the checkpoint store.                   *)
(***************************************************************************)
\* The session's channels are what the last put of its thread persisted.
Persisted ==
  /\ checkpoints # <<>>
  /\ checkpoints[Len(checkpoints)].thread_id = threadId
  /\ checkpoints[Len(checkpoints)].values = state

\* The undo stack write_file has built for a path in the session's cache.
UndoStack(path) ==
  LET files == state["openFiles"].v
  IN IF path = NoPath \/ IndexOf(files, path) = 0 THEN <<>>
     ELSE files[IndexOf(files, path)].previousVersions

\* The path an undo is aimed at: the given one, else the last recorded change.
UndoTarget(filePath) ==
  IF filePath # NoPath THEN filePath
  ELSE IF state["recentChanges"].v # <<>>
       THEN state["recentChanges"].v[Len(state["recentChanges"].v)]
       ELSE NoPath

\* C11: undoLastChange restores in LIFO order and fails softly. Once the
\* session is persisted, an undo aimed at a path with a non-empty undo stack
\* succeeds and restores the most recently pushed previous content (unless
\* the write of the file itself fails); an undo aimed at a path with no cache
\* entry, an empty stack or no recorded change returns success = false and
\* leaves cache and disk as they are. (Violated: the undo never finds the
\* stack that write_file built.)
C11_UndoIsLifo ==
  [][\A filePath \in Paths \cup {NoPath} :
       (Persisted /\ lastUndo'.at = ops' /\ lastUndo'.path = UndoTarget(filePath))
       => IF UndoStack(UndoTarget(filePath)) # <<>>
          THEN \/ lastUndo'.message = "Undo failed"
               \/ /\ lastUndo'.success
                  /\ lastUndo'.restored =
                       UndoStack(UndoTarget(filePath))[Len(UndoStack(UndoTarget(filePath)))]
          ELSE ~lastUndo'.success /\ disk' = disk]_vars

\* C12: write_file(p, A) on an uncached path, then write_file(p, B), the
\* checkpoint persisted, then an undo of p: the undo succeeds and the disk and
\* the cached content of p are A. (Violated: the undo fails and the disk keeps B.)
C12_UndoAfterTwoWrites ==
  [][\A p \in Paths :
       LET files == state["openFiles"].v
           i == IndexOf(files, p)
       IN (/\ Persisted
           /\ i # 0
           /\ Len(files[i].previousVersions) = 1
           /\ disk[p] = files[i].content
           /\ lastUndo'.at = ops' /\ lastUndo'.path = p
           /\ lastUndo'.message # "Undo failed")
          => /\ lastUndo'.success
             /\ disk'[p] = files[i].previousVersions[1]]_vars

(***************************************************************************)
(* Claims about the conversation graph.                                    *)
(***************************************************************************)
\* C13: after the iteration gate is answered with 'continue', the executeTools
\* step that follows observes an iteration counter of 0, and the next
\* iteration-limit prompt comes only after 25 further executeTools steps.
\* (Violated: the step observes 25 and the next prompt comes after one step.)
C13_CounterZeroAfterContinue ==
  /\ gate.observed # <<>> => gate.observed[1] = 0
  /\ gate.gap # <<>> => gate.gap[1] >= SoftLimit

C15_RejectedCommandResult ==
  \A n \in 1..Len(calls) :
    (~calls[n].isServer /\ calls[n].slot # 0 /\ calls[n].decision = "reject")
      => /\ slots[calls[n].slot].state = "resolved"
         /\ slots[calls[n].slot].value = Result("", "Command not approved by user", -1)
         /\ \A k \in 1..Len(toolResults) :
              toolResults[k].value = Result("", "Command not approved by user", -1)
                => ~toolResults[k].is_error

\* C16: a tool invocation that throws becomes an error tool result
\* ('Error: ' and the message, is_error true) for its tool-use id, every other
\* tool use of the batch is still run and gets its result, and the graph goes
\* on to formatResults: no tool failure is thrown out of executeTools.
C16_ThrowBecomesErrorResult ==
  /\ Len(batchResults) = Len(batchOutcomes)
  /\ \A i \in 1..Len(batchResults) :
       /\ batchResults[i].tool_use_id = i
       /\ batchResults[i].is_error = (batchOutcomes[i] # "ok")
       /\ batchOutcomes[i] # "ok" => batchResults[i].content = "Error: " \o batchOutcomes[i]
  /\ thrown \in {"none", "llm", "checkpoint", "recursion"}
  /\ (graphPc = "formatResults" => batchOutcomes # <<>>)

C16_Witness ==
  /\ graphPc = "formatResults"
  /\ Len(batchOutcomes) = 2
  /\ batchOutcomes[1] # "ok"
  /\ batchOutcomes[2] = "ok"
  /\ ~batchResults[2].is_error

\* C17: when the provider call fails, in any phase and for either provider,
\* invoke rejects, the persisted state stays that of the last successful put,
\* and the progress indicator started by callLLM is stopped. (Violated: a
\* failing openai.chat.completions.create leaves the indicator started.)
C17_ProviderFailure ==
  [][(thrown' = "llm" /\ thrown # "llm")
       => /\ graphPc' = "failed"
          /\ saved' = saved
          /\ ~spinner']_vars

\* C20: a checkpoint write that fails during a turn does not end the turn.
\* (Violated: the rejection of put rejects invoke.)
C20_FailedWriteNotFatal ==
  [][(graphPc \in Nodes \cup {"gate"} /\ thrown' = "checkpoint")
       => graphPc' \in Nodes \cup {"gate", "done"}]_vars

(***************************************************************************)
(* Claims about getTuple and the stored form.                              *)
(***************************************************************************)
\* The row of the most recent put of a thread, 0 when it has none.
LastPut(rows, thread) ==
  LET mine == {i \in 1..Len(rows) : rows[i].thread_id = thread}
  IN IF mine = {} THEN 0 ELSE CHOOSE i \in mine : \A j \in mine : j <= i

\* C18: getTuple without a checkpoint id returns the checkpoint of the most
\* recent put of the thread, also when two puts carry the same created_at;
\* with a checkpoint id it returns the row of (thread, id), or nothing.
\* (Violated: among rows with equal created_at any one may be returned.)
C18_LatestIsMostRecentPut ==
  [][lastGet'.at = ops'
       => IF lastGet'.id = NoCheckpointId
          THEN lastGet'.row = LastPut(checkpoints, lastGet'.thread)
          ELSE \/ /\ lastGet'.found
                  /\ checkpoints[lastGet'.row].thread_id = lastGet'.thread
                  /\ checkpoints[lastGet'.row].checkpoint_id = lastGet'.id
               \/ /\ ~lastGet'.found
                  /\ \A i \in 1..Len(checkpoints) :
                       ~(checkpoints[i].thread_id = lastGet'.thread
                         /\ checkpoints[i].checkpoint_id = lastGet'.id)]_vars

\* C19: a checkpoint read back equals what was put in every channel but
\* openFiles; the stored form holds the list of the cached paths only, and the
\* openFiles read back is an empty cache.
C19_ReadBackEqualsPut ==
  \A i \in 1..Len(checkpoints) :
    LET row == checkpoints[i]
        back == getTuple(checkpoints, i).values
    IN /\ \A c \in Channels \ {"openFiles"} : Get(back, c) = Get(row.values, c)
       /\ row.checkpoint_data["openFiles"] = Keys(row.values["openFiles"].v)
       /\ Get(back, "openFiles") = Chan(NoCache)

C19_Witness ==
  /\ lastGet.found
  /\ lastGet.row <= Len(checkpoints)
  /\ checkpoints[lastGet.row].values["openFiles"].v # NoCache
  /\ Get(lastGet.values, "openFiles") = Chan(NoCache)
  /\ Get(lastGet.values, "recentChanges").v # <<>>

(***************************************************************************)
(* Claims of the third group.                                              *)
(***************************************************************************)
\* The estimated tokens of the largest message with a tool use in a list.
RECURSIVE MaxHolderTokens(_)
MaxHolderTokens(msgs) ==
  IF msgs = <<>> THEN 0
  ELSE IF hasToolUses(Head(msgs))
       THEN Max(estimateTokensFromMessage(Head(msgs)), MaxHolderTokens(Tail(msgs)))
       ELSE MaxHolderTokens(Tail(msgs))

\* C21: the list pruneMessages returns has at most ceiling + 1 messages, and
\* (for a first message that fits the budget) its estimated tokens exceed the
\* budget by at most the tokens of one message with a tool use. (Violated:
\* every message with a tool result is kept together with its predecessor,
\* whatever the budget.)
C21_LimitsExceededByOne ==
  (prunePc = "done" /\ estimateTokensFromMessage(messages[1]) <= maxTokens)
    => /\ Len(pruneOut.prunedMessages) <= maxMessages + 1
       /\ TotalTokens(pruneOut.prunedMessages)
            <= maxTokens + MaxHolderTokens(pruneOut.prunedMessages)

\* C22: at the soft limit with tool uses the turn waits at the prompt; while it
\* waits no tool of the batch runs and the counter stays; the answer 'stop' leads
\* to the end node (or to a rejected checkpoint write) with the batch never run,
\* the answer 'continue' leads to executeTools.
C22_GateHoldsBatch ==
  /\ [](graphPc = "gate"
          => gate.answer = "pending" /\ toolUses > 0 /\ iterationCount >= SoftLimit)
  /\ [](gate.answer = "stop" => graphPc \in {"end", "done", "failed"})
  /\ [][(graphPc = "callLLM" /\ graphPc' # "failed" /\ toolUses' > 0
           /\ iterationCount' >= SoftLimit) => graphPc' = "gate"]_vars
  /\ [][graphPc = "gate"
         => /\ batchOutcomes' = batchOutcomes /\ batchResults' = batchResults
            /\ iterationCount' = iterationCount
            /\ gate'.answer \in {"stop", "continue"}
            /\ gate'.answer = "stop" => graphPc' \in {"end", "failed"}
            /\ gate'.answer = "continue" => graphPc' \in {"executeTools", "failed"}]_vars
  /\ [][gate.answer = "stop" => batchOutcomes' = batchOutcomes]_vars

\* The prompt was answered with 'stop' and the turn is at the end node with the
\* batch still pending.
C22_Witness ==
  /\ graphPc = "end" /\ gate.answer = "stop"
  /\ toolUses > 0 /\ iterationCount >= SoftLimit

\* C23: the edge behind callLLM looks only at the tool uses and the counter:
\* without tool uses the turn goes to the end node at every counter value and
\* nothing is asked; with tool uses below the soft limit it goes to executeTools
\* whatever the text of the response, completion phrases included.
C23_RouteIgnoresText ==
  [][(graphPc = "callLLM" /\ graphPc' # "failed")
       => /\ toolUses' = 0 => (graphPc' = "end" /\ gate' = gate)
          /\ (toolUses' > 0 /\ iterationCount' < SoftLimit)
               => graphPc' = "executeTools"]_vars

\* A response with tool uses and a completion phrase went to executeTools.
C23_Witness ==
  /\ graphPc = "executeTools" /\ HasCompletionPhrase(lastText)
  /\ toolUses > 0 /\ iterationCount < SoftLimit /\ gate.answer = "none"

\* C24: a step of executeTools adds exactly one to the counter, whatever the size
\* of the batch and the outcomes of its tools, and no other step raises it.
C24_CounterStepsByOne ==
  /\ [][graphPc = "executeTools" /\ graphPc' # graphPc /\ thrown' # "recursion"
         => iterationCount' = iterationCount + 1]_vars
  /\ [][iterationCount' > iterationCount => graphPc = "executeTools"]_vars

\* A batch of two tool uses, one of which threw, has run and raised the counter
\* of a fresh thread to one.
C24_Witness ==
  /\ graphPc = "formatResults" /\ iterationCount = 1
  /\ Len(batchOutcomes) = MaxBatch
  /\ \E i \in 1..Len(batchOutcomes) : batchOutcomes[i] # "ok"
\* The positions of the events of tool use i in the log.
EventsOf(i) == {k \in 1..Len(toolEvents) : toolEvents[k].id = i}

\* C25: the tools of a batch run one after the other in the order of the
\* response (every event of a tool use, its approval wait included, lies before
\* every event of the next one), the results are one per tool use in that
\* order, and formatResults appends one user message holding all of them right
\* behind the assistant message with the tool uses.
C25_BatchInOrder ==
  /\ [](graphPc = "formatResults"
          => /\ \A i \in 1..toolUses :
                  /\ \E k \in EventsOf(i) : toolEvents[k].ev = "invoke"
                  /\ \A j \in 1..toolUses : \A k \in EventsOf(i), l \in EventsOf(j) :
                       i < j => k < l
             /\ Len(batchResults) = toolUses
             /\ \A i \in 1..toolUses : batchResults[i].tool_use_id = i)
  /\ [][(graphPc = "formatResults" /\ graphPc' = "callLLM")
         => /\ history' = history + 1
            /\ Len(lastMessages) = 1 /\ Len(lastMessages') = 2
            /\ lastMessages'[1] = lastMessages[1]
            /\ lastMessages[1].role = "assistant"
            /\ Len(lastMessages[1].content) = toolUses
            /\ lastMessages'[2].role = "user"
            /\ Len(lastMessages'[2].content) = toolUses
            /\ \A i \in 1..toolUses :
                 /\ lastMessages'[2].content[i].tool_use_id = lastMessages[1].content[i]
                 /\ lastMessages'[2].content[i].content = batchResults[i].content]_vars

\* A batch of two tool uses, the second a tool that threw, has been formatted.
C25_Witness ==
  /\ graphPc = "callLLM" /\ Len(lastMessages) = 2
  /\ Len(batchOutcomes) = MaxBatch /\ batchOutcomes[MaxBatch] # "ok"
  /\ Len(lastMessages[1].content) = MaxBatch
  /\ lastMessages[2].content[MaxBatch].is_error
\* The provider gives every tool use an id of its own.
OwnId(n) == \A m \in 1..Len(calls) : calls[m].id = calls[n].id => m = n

\* The calls of the ordinary command tool that the user approved and that had
\* registered a pending approval, under an id no other call has.
ApprovedCommands ==
  {n \in 1..Len(calls) :
     /\ ~calls[n].isServer /\ calls[n].decision = "approve" /\ calls[n].slot # 0
     /\ OwnId(n)}

SessionsOf(n) == {i \in 1..Len(sessions) : sessions[i].call = n}

\* C26: the approval of an approved command is resolved only by the exit event
\* of its own process, and that exit hands the waiter its output and exit code;
\* a process reports its exit once; and an approval that is settled stays as
\* it is, whatever exit arrives later. (Violated with --verbose: the exit of the
\* process reaches no waiter.)
C26_ReleasedByOwnExit ==
  /\ [](\A n \in ApprovedCommands :
          /\ slots[calls[n].slot].state = "resolved"
               => \E i \in SessionsOf(n) :
                    /\ sessions[i].state = "exited"
                    /\ slots[calls[n].slot].value
                         = Result("output",
                                  IF sessions[i].report[1].timedOut
                                  THEN "Command timed out" ELSE "",
                                  sessions[i].report[1].exitCode)
          /\ \A i \in SessionsOf(n) :
               sessions[i].state = "exited" => slots[calls[n].slot].state # "pending")
  /\ [](\A i \in 1..Len(sessions) : sessions[i].exits <= 1)
  /\ [][\A n \in ApprovedCommands :
          slots[calls[n].slot].state # "pending"
            => slots'[calls[n].slot] = slots[calls[n].slot]]_vars

\* The calls of the server command tool that the user approved and whose
\* process was spawned, under an id no other call has.
StartedServers ==
  {n \in 1..Len(calls) :
     /\ calls[n].isServer /\ calls[n].decision = "approve" /\ calls[n].slot # 0
     /\ OwnId(n) /\ SessionsOf(n) # {}}

\* C27: once the process of an approved server command is spawned, its approval
\* is resolved with the 'started' acknowledgement (exit code 0) without waiting
\* for the exit; the process is in the registry of server sessions for as long
\* as it runs and its timer has not fired; and nothing that happens later,
\* the exit included, changes what the waiter got. (Violated with --verbose:
\* the acknowledgement reaches no waiter.)
C27_ServerAckAtSpawn ==
  /\ [](\A n \in StartedServers :
          /\ slots[calls[n].slot].state = "resolved"
          /\ slots[calls[n].slot].value = Result("started", "", 0)
          /\ \A i \in SessionsOf(n) :
               (sessions[i].state = "running" /\ sessions[i].timer = "armed")
                 => /\ sessions[i].toolUseId \in DOMAIN serverSessionControllers
                    /\ serverSessionControllers[sessions[i].toolUseId] = i)
  /\ [][\A n \in StartedServers :
          slots'[calls[n].slot] = slots[calls[n].slot]]_vars
\* C28: the timer of a session fires at most once and never after it was
\* cancelled; a firing timer kills the process unless the kill itself throws;
\* a session that was disposed or has exited has no armed
\* timer; and the exit report says timedOut exactly when the timer had fired.
C28_TimerSingleShot ==
  /\ [](\A i \in 1..Len(sessions) :
          /\ sessions[i].timedOut <=> sessions[i].timer = "fired"
          /\ sessions[i].state \in {"killed", "exited"} => sessions[i].timer # "armed"
          /\ sessions[i].state = "exited"
               => sessions[i].report[1].timedOut = (sessions[i].timer = "fired"))
  /\ [][\A i \in 1..Len(sessions) :
          /\ sessions[i].timer # "armed" => sessions'[i].timer = sessions[i].timer
          /\ (sessions[i].timer = "armed" /\ sessions'[i].timer = "fired")
               => (sessions'[i].state = "killed" \/ sessions'[i].killThrew)]_vars

\* One session was killed by its timer and reported timedOut, another one was
\* disposed first and reported an exit that did not time out.
C28_Witness ==
  \E i, j \in 1..Len(sessions) :
    /\ sessions[i].state = "exited" /\ sessions[i].report[1].timedOut
    /\ sessions[j].state = "exited" /\ sessions[j].timer = "cleared"
    /\ ~sessions[j].report[1].timedOut
\* C29: keystrokes go to the session commandSessionRef holds and to no other,
\* so at most one session is attached; that session is a command session
\* whose process has neither exited nor been disposed after an error, and every
\* keystroke that was forwarded went to such a session.
C29_AttachedSessionRuns ==
  /\ commandSessionRef # 0
       => /\ commandSessionRef \in 1..Len(sessions)
          /\ Attachable(sessions[commandSessionRef])
  /\ gwLog.fn = "write" => gwLog.had

\* A keystroke was forwarded to the attached session while another command
\* session had already exited.
C29_Witness ==
  /\ gwLog.fn = "write" /\ gwLog.had
  /\ commandSessionRef # 0
  /\ \E i \in 1..Len(sessions) :
       sessions[i].kind = "command" /\ sessions[i].state = "exited"
\* The place of a piece in everything its session was handed: the characters
\* before its chunk, then its own range.
RECURSIVE Sum(_)
Sum(lens) == IF lens = <<>> THEN 0 ELSE Head(lens) + Sum(Tail(lens))

First(rec, piece) == Sum(SubSeq(rec, 1, piece.chunk - 1)) + piece.from
Last(rec, piece) == Sum(SubSeq(rec, 1, piece.chunk - 1)) + piece.to

\* str is the end of what was handed to the session: its pieces follow each
\* other without a gap and the last one ends where the last chunk ends.
IsSuffix(str, rec) ==
  /\ \A j \in 1..Len(str) - 1 : First(rec, str[j + 1]) = Last(rec, str[j]) + 1
  /\ str # <<>> => Last(rec, str[Len(str)]) = Sum(rec)

\* C30: whatever chunks the server sessions were handed, clear sequences and
\* the termination notice included, every session's output is at most 8000
\* characters long and is the end of what that session was handed, and a chunk
\* for one session leaves the output of the other alone. (Violated: a chunk
\* with a clear sequence replaces the output without being cut.)
C30_BufferBounded ==
  /\ [](\A id \in ServerIds :
          /\ StrLen(serverOutput[id]) <= MAX_COMMAND_OUTPUT_LENGTH
          /\ IsSuffix(serverOutput[id], received[id]))
  /\ [][\A id \in ServerIds :
          received'[id] = received[id] => serverOutput'[id] = serverOutput[id]]_vars

(***************************************************************************)
(* Claims of the fourth group.                                             *)
(***************************************************************************)

\* C38: in every state of a turn the history holds at most 51 messages: at most
\* 50 once callLLM has appended the assistant message (the prune before the
\* append returns at most 49) and at most 51 once formatResults has appended
\* the tool-result message.
C38_HistoryAtMost51 ==
  /\ Len(messages) <= CeilingLLM + 1
  /\ turn.pc \in {"formatResults", "end"} =>
       /\ Len(pruneOut.prunedMessages) <= CeilingProvider
       /\ Len(messages) <= CeilingProvider + 1

\* The history is full after a prune that had to drop messages.
C38_Witness ==
  /\ turn.pc = "callLLM"
  /\ Len(messages) = CeilingLLM + 1
  /\ Len(pruneOut.kept) < Len(turn.before)

\* C31: after every executeTools step recentChanges and recentReads hold at
\* most 20 entries and recentCommands at most 10, each the most recently
\* appended ones in the order they were appended, and every recorded command
\* output is at most 500 characters: the first 500 of stdout followed, on a
\* new line, by stderr.
C31_RecentListsBounded ==
  /\ Len(tracked.recentChanges) <= ChangeLimit
  /\ tracked.recentChanges = SliceLast(trackLog.changes, ChangeLimit)
  /\ Len(tracked.recentReads) <= ChangeLimit
  /\ tracked.recentReads = SliceLast(trackLog.reads, ChangeLimit)
  /\ Len(tracked.recentCommands) <= CommandLimit
  /\ tracked.recentCommands = SliceLast(trackLog.commands, CommandLimit)
  /\ \A i \in 1..Len(tracked.recentCommands) :
       \E c \in {tracked.recentCommands[i]} :
         /\ StrLen(c.output) <= OutputLimit
         /\ StrLen(c.output) = IF c.stdout + c.stderr = 0 THEN 0
                                ELSE IF c.stderr = 0 THEN (IF c.stdout <= OutputLimit
                                                          THEN c.stdout ELSE OutputLimit)
                                ELSE IF c.stdout + 1 + c.stderr <= OutputLimit
                                THEN c.stdout + 1 + c.stderr ELSE OutputLimit
         /\ \A j \in 1..Len(c.output) :
              /\ c.output[j].from = 1
              /\ j > 1 => c.output[j].chunk > c.output[j - 1].chunk
              /\ j < Len(c.output) =>
                   c.output[j].to = (IF c.output[j].chunk = 1 THEN c.stdout ELSE 1)

\* All three lists have dropped entries and a command output was cut.
C31_Witness ==
  /\ Len(trackLog.changes) > ChangeLimit
  /\ Len(trackLog.reads) > ChangeLimit
  /\ Len(trackLog.commands) > CommandLimit
  /\ \E i \in 1..Len(tracked.recentCommands) :
       /\ tracked.recentCommands[i].stdout + tracked.recentCommands[i].stderr > OutputLimit
       /\ tracked.recentCommands[i].stderr > 0
       /\ StrLen(tracked.recentCommands[i].output) = OutputLimit

\* C33: every write_file on a path that has a cache entry pushes the content of
\* the entry, whatever it is (the empty content too), onto previousVersions
\* before it overwrites it; previousVersions holds at most 10 versions, the
\* latest; read_file replaces the content and leaves previousVersions as it is.
\* (Violated: an empty content is not pushed.)
C33_OverwrittenIsPushed ==
  \A i \in 1..Len(tracked.openFiles) :
    /\ Len(tracked.openFiles[i].previousVersions) <= VersionLimit
    /\ tracked.openFiles[i].previousVersions =
         SliceLast(trackLog.overwritten[tracked.openFiles[i].path], VersionLimit)

\* C34: eviction does not take away what undo needs: a cache entry with
\* previous versions is not evicted, and after any reads and writes the undo
\* of a path whose entry has recorded previous versions succeeds (when the file
\* can be written). (Violated: the cache read back from the checkpoint is an
\* empty Map, and eviction removes the oldest entry whatever it holds.)
C34_UndoSurvivesEviction ==
  /\ \A i \in 1..Len(trackLog.evicted) : trackLog.evicted[i].previousVersions = <<>>
  /\ \A i \in 1..Len(tracked.openFiles) :
       (/\ trackLog.undo.at > 0
        /\ trackLog.undo.path = tracked.openFiles[i].path
        /\ trackLog.undo.message # "Undo failed"
        /\ tracked.openFiles[i].previousVersions # <<>>)
         => trackLog.undo.success

\* C35: at most one continue gate is outstanding at any time: arming the gate
\* while an earlier one is unanswered does not leave the earlier waiter
\* suspended for good (the unanswered promise is the one the next decision
\* resolves), every promise is settled at most once, and a decision delivered
\* while no gate is armed changes no promise. (Violated: waitForContinue
\* overwrites the functions of the promise it held.)
C35_OneGateOutstanding ==
  /\ [](/\ Cardinality({k \in 1..Len(waiters) : waiters[k].state = "pending"}) <= 1
        /\ \A k \in 1..Len(waiters) :
             /\ waiters[k].settles <= 1
             /\ waiters[k].state = "pending" => pendingContinue = <<k>>)
  /\ [][(continueUi.prompt /\ ~continueUi'.prompt /\ pendingContinue = <<>>)
          => (waiters' = waiters /\ pendingContinue' = <<>>)]_vars

\* The messages of the history before the last callLLM that the prune before the
\* append did not retain.
RemovedByPrune ==
  {i \in 1..Len(turn.before) : i \notin Range(pruneOut.kept)}

\* C32: every message the prune before the append removed from the history
\* (backward scan, length trim or final pass) left a summary, stamped with the
\* time of the call, in historicalSummaries, an assistant message with only
\* tool-use blocks included; the buffer holds at most 50 entries, the latest.
\* (Violated: summarizeMessage returns null for a message without text and
\* without tool results, and nothing is archived for it.)
C32_RemovedIsSummarized ==
  turn.pc \in {"formatResults", "end"} =>
    /\ Len(pruneOut.archivedSummaries) = Cardinality(RemovedByPrune)
    /\ Len(historicalSummaries) <= SummaryLimit
    /\ \E new \in {[i \in 1..Len(pruneOut.archivedSummaries) |->
                      [timestamp |-> turn.n, summary |-> pruneOut.archivedSummaries[i]]]} :
         historicalSummaries = SliceLast(turn.summariesBefore \o new, SummaryLimit)

IsContextMessage(msg) == msg.str /\ msg.txt = ContextText

\* C36: the synthesized context message exists only at the head of the window
\* handed to the provider: the window is the pruned history, with that message
\* in front when the summary is not empty; the history never holds it; and the
\* summary is empty when there are no open files, changes, commands, focus
\* entries or historical summaries.
C36_ContextOnlyInWindow ==
  /\ \A i \in 1..Len(messages) : ~IsContextMessage(messages[i])
  /\ turn.n > 0 =>
       /\ turn.sent = (IF turn.context # <<>>
                       THEN <<TextMsg("user", ContextText, SmallChars)>> ELSE <<>>)
                        \o turn.window.prunedMessages
       /\ \A i \in 1..Len(turn.window.prunedMessages) :
            ~IsContextMessage(turn.window.prunedMessages[i])
       /\ (turn.tracking = TrackingOf(0, 0, 0, 0) /\ turn.summariesBefore = <<>>)
            => turn.context = <<>>

\* A window with the context message in front was sent and the response stored.
C36_Witness ==
  /\ turn.pc = "formatResults"
  /\ turn.n > 1
  /\ turn.context # <<>>
  /\ IsContextMessage(turn.sent[1])
  /\ Len(turn.sent) = Len(turn.window.prunedMessages) + 1

\* C39: computing the window for the provider (pruneMessages with ceiling 50 in
\* callLLM) leaves the history as it was: no message of the history has lost a
\* block or changed, and pruning the history again with the same limits gives
\* the same retained messages and the same archived summaries.
C39_WindowLeavesHistory ==
  turn.pc \in {"formatResults", "end", "failed"} =>
    /\ turn.window.input = turn.before
    /\ \E again \in {pruneMessages(turn.window.input, CeilingLLM, maxTokens)} :
         /\ again.prunedMessages = turn.window.prunedMessages
         /\ again.archivedSummaries = turn.window.archivedSummaries
         /\ again.input = turn.before

\* A window that does not hold the whole history was computed.
C39_Witness ==
  /\ turn.pc = "formatResults"
  /\ Len(turn.before) = CeilingLLM + 1
  /\ Len(turn.window.prunedMessages) = CeilingLLM
  /\ turn.window.input = turn.before

\* C37: for every command, cwd and timeout of an execute_command tool use,
\* the command, cwd and timeout of the approval prompt equal those of the
\* tool input (white space at the ends of the command, an empty cwd and a
\* timeout of 0 apart, which the code drops on purpose), and what
\* startCommandSession runs after approval is the command and cwd of the
\* input with its timeout in seconds: building the marker and parsing it
\* back is the identity, also for commands that contain ":CWD:" or
\* ":TIMEOUT:".
C37_MarkerRoundTrip ==
  marked.pc # "idle" =>
    LET input == marked.input[1]
        given == [command |-> trim(input.command),
                  cwd |-> IF input.cwd = << <<>> >> THEN <<>> ELSE input.cwd,
                  timeout |-> IF input.timeout = <<0>> THEN <<>> ELSE input.timeout]
    IN /\ marked.pending[1] = given
       /\ marked.pc = "running" =>
            /\ marked.executed[1].command = given.command
            /\ marked.executed[1].cwd = given.cwd
            /\ marked.executed[1].timeout = normalizedTimeout(given.timeout)

\* C40: graceful shutdown releases whatever the controller is suspended on.
\* For the iteration gate: in the state gracefulShutdown leaves, no promise
\* of waitForContinue is pending and no function of one is held; and the
\* flag it sets is never cleared, so a second request returns at once.
\* (Violated: gracefulShutdown does not touch the gate.)
C40_ShutdownReleasesGate ==
  [][/\ (~continueUi.shuttingDown /\ continueUi'.shuttingDown) =>
          /\ \A k \in 1..Len(waiters') : waiters'[k].state # "pending"
          /\ pendingContinue' = <<>>
     /\ continueUi.shuttingDown => continueUi'.shuttingDown]_vars

====
